---- MODULE Spec2Model ----
(***************************************************************************)
(* Model of the ticket-health tracker's analytics services                 *)
(* (app/services.py, app/models.py).                                       *)
(*                                                                         *)
(* The es_tickets and user_ticket_flags tables are sequences of rows in the *)
(* order the store returns them for a select without ORDER BY.  Every      *)
(* service call is one action that records the call's arguments and its    *)
(* return value; flag_ticket is also modelled step by step, for calls that *)
(* run at the same time in sessions of their own.                          *)
(***************************************************************************)
EXTENDS Integers, Sequences, FiniteSets, TLC

VARIABLES tickets, flags, filters, args, op, result, sessions,
          dash_tickets, users, filter_state, refresh, seed_batches

vars == <<tickets, flags, filters, args, op, result, sessions,
          dash_tickets, users, filter_state, refresh, seed_batches>>

\* The state of DashboardService, FilterState, DashboardState and SeedService.
appVars == <<dash_tickets, users, filter_state, refresh, seed_batches>>

(***************************************************************************)
(* Python values.                                                          *)
(*   Optional[X]: None is <<>>, a value v is <<v>>.                        *)
(*   datetime: <<year, month, day, hour>>, compared field by field.        *)
(*   str built by isoformat(): the sequence of its character codes.        *)
(***************************************************************************)
None == <<>>

Some(v) == <<v>>

IsNone(o) == o = <<>>

Val(o) == o[1]

Min2(a, b) == IF a <= b THEN a ELSE b

\* Python's ordering of sequences (str, and the fields of a datetime): the
\* first differing position decides, a proper prefix is smaller.
SeqLess(a, b) ==
    \E k \in 1..(Min2(Len(a), Len(b)) + 1) :
        /\ \A j \in 1..(k - 1) : a[j] = b[j]
        /\ \/ k > Len(a) /\ k <= Len(b)
           \/ k <= Len(a) /\ k <= Len(b) /\ a[k] < b[k]

SeqLeq(a, b) == a = b \/ SeqLess(a, b)

\* datetime.date(): the calendar date <<year, month, day>> of a datetime.
DateOf(dt) == <<dt[1], dt[2], dt[3]>>

\* Character codes of a number written with at least two / exactly four
\* digits ("%02d", "%04d"); 48 is "0".
Pad2(n) == <<48 + ((n \div 10) % 10), 48 + (n % 10)>>

Pad4(n) == <<48 + ((n \div 1000) % 10), 48 + ((n \div 100) % 10)>> \o Pad2(n)

\* A number written without padding (one or two digits).
Unpadded(n) == IF n < 10 THEN <<48 + n>> ELSE Pad2(n)

IsoFormatUnpadded(d) == Pad4(d[1]) \o <<45>> \o Unpadded(d[2]) \o <<45>> \o Unpadded(d[3])

\* date.isoformat(): "YYYY-MM-DD"; 45 is "-".
IsoFormat(d) == Pad4(d[1]) \o <<45>> \o Pad2(d[2]) \o <<45>> \o Pad2(d[3])

(***************************************************************************)
(* Python truthiness, as the services use it.                              *)
(***************************************************************************)
\* `if filters.date_start:` / `if ticket.mitigated_date:` - a datetime is
\* always truthy, so only None is falsy.
TruthyDatetime(o) == ~IsNone(o)

\* `if filters.teams:` - None and the empty list are both falsy.
TruthyList(o) == ~IsNone(o) /\ Len(Val(o)) > 0

\* `ticket.severity or "Unknown"` - None and "" both give the default.
OrDefault(o, dflt) == IF IsNone(o) \/ Val(o) = "" THEN dflt ELSE Val(o)

SeqToSet(s) == {s[i] : i \in 1..Len(s)}

(***************************************************************************)
(* SQL: three-valued conditions, WHERE keeps the rows whose condition is   *)
(* true.                                                                   *)
(***************************************************************************)
\* col >= bound, col <= bound on a NOT NULL datetime column.
SqlGe(v, bound) == IF SeqLeq(bound, v) THEN "true" ELSE "false"

SqlLe(v, bound) == IF SeqLeq(v, bound) THEN "true" ELSE "false"

\* A NULL column taken to match any list.
SqlInNullMatches(v, list) == IF IsNone(v) \/ Val(v) \in SeqToSet(list) THEN "true" ELSE "false"

\* The column required to equal every listed value instead of any of them.
SqlInEvery(v, list) ==
    IF IsNone(v) THEN "null"
    ELSE IF \A x \in SeqToSet(list) : Val(v) = x THEN "true" ELSE "false"

\* col IN (list): NULL for a NULL column, whatever the list holds.
SqlIn(v, list) ==
    IF IsNone(v) THEN "null"
    ELSE IF Val(v) \in SeqToSet(list) THEN "true" ELSE "false"

\* and_(*conditions)
SqlAnd(vals) ==
    IF \E i \in 1..Len(vals) : vals[i] = "false" THEN "false"
    ELSE IF \E i \in 1..Len(vals) : vals[i] = "null" THEN "null"
    ELSE "true"

(***************************************************************************)
(* TicketService.get_filtered_tickets                                      *)
(***************************************************************************)
\* The `conditions` list of get_filtered_tickets, evaluated on row t.
FilterConditions(t, f) ==
    (IF TruthyDatetime(f.date_start) THEN <<SqlGe(t.created, Val(f.date_start))>> ELSE <<>>)
    \o (IF TruthyDatetime(f.date_end) THEN <<SqlLe(t.created, Val(f.date_end))>> ELSE <<>>)
    \o (IF TruthyList(f.teams) THEN <<SqlIn(t.eng_team, Val(f.teams))>> ELSE <<>>)
    \o (IF TruthyList(f.severities) THEN <<SqlIn(t.severity, Val(f.severities))>> ELSE <<>>)
    \o (IF TruthyList(f.statuses) THEN <<SqlIn(Some(t.status), Val(f.statuses))>> ELSE <<>>)

\* `if conditions: query = query.where(and_(*conditions))`, then .all().
RowSelected(conds) == conds = <<>> \/ SqlAnd(conds) = "true"

get_filtered_tickets(store, f) ==
    SelectSeq(store, LAMBDA t : RowSelected(FilterConditions(t, f)))

(***************************************************************************)
(* TicketService.get_kpi_data                                              *)
(***************************************************************************)
\* The `base_conditions` list of get_kpi_data, evaluated on row t.
KpiBaseConditions(t, f) ==
    (IF TruthyDatetime(f.date_start) THEN <<SqlGe(t.created, Val(f.date_start))>> ELSE <<>>)
    \o (IF TruthyDatetime(f.date_end) THEN <<SqlLe(t.created, Val(f.date_end))>> ELSE <<>>)
    \o (IF TruthyList(f.teams) THEN <<SqlIn(t.eng_team, Val(f.teams))>> ELSE <<>>)
    \o (IF TruthyList(f.severities) THEN <<SqlIn(t.severity, Val(f.severities))>> ELSE <<>>)
    \o (IF TruthyList(f.statuses) THEN <<SqlIn(Some(t.status), Val(f.statuses))>> ELSE <<>>)

RECURSIVE SumHours(_)
\* sum(float(t.time_to_resolve_hours) for t in resolved_tickets), in
\* hundredths of an hour (the column is a Decimal with two places).
SumHours(ts) ==
    IF ts = <<>> THEN 0
    ELSE Val(Head(ts).time_to_resolve_hours) + SumHours(Tail(ts))

\* The quotient cut off instead of rounded.
RoundTruncated(total, n) == total \div n

\* round(total / n, 2) as a whole number of hundredths: to the nearest, a tie
\* to the even neighbour.  (A float tie is exact, and so rounded this way,
\* when the durations are whole hours and fewer than 40 are averaged.)
RoundDiv(total, n) ==
    LET q == total \div n
        r == total % n
    IN  IF 2 * r < n THEN q
        ELSE IF 2 * r > n THEN q + 1
        ELSE IF q % 2 = 0 THEN q ELSE q + 1

\* tickets_mitigated counted only where the mitigation lies in the date window.
get_kpi_data_MitigatedInWindow(store, f) ==
    LET tks == SelectSeq(store, LAMBDA t : RowSelected(KpiBaseConditions(t, f)))
        resolved_tickets == SelectSeq(tks, LAMBDA t : ~IsNone(t.time_to_resolve_hours))
        InWindow(dt) ==
            /\ IsNone(f.date_start) \/ SeqLeq(Val(f.date_start), dt)
            /\ IsNone(f.date_end) \/ SeqLeq(dt, Val(f.date_end))
    IN  [tickets_created |-> Len(tks),
         tickets_mitigated |->
            Len(SelectSeq(tks, LAMBDA t : ~IsNone(t.mitigated_date)
                                          /\ InWindow(Val(t.mitigated_date)))),
         open_tickets |-> Len(SelectSeq(tks, LAMBDA t : IsNone(t.resolved_date))),
         avg_time_to_resolve_hours |->
            IF Len(resolved_tickets) > 0
            THEN Some(RoundDiv(SumHours(resolved_tickets), Len(resolved_tickets)))
            ELSE None]

\* tickets_mitigated counted over the whole table instead of the filtered rows.
get_kpi_data_MitigatedUnfiltered(store, f) ==
    LET tks == SelectSeq(store, LAMBDA t : RowSelected(KpiBaseConditions(t, f)))
        resolved_tickets == SelectSeq(tks, LAMBDA t : ~IsNone(t.time_to_resolve_hours))
    IN  [tickets_created |-> Len(tks),
         tickets_mitigated |-> Len(SelectSeq(store, LAMBDA t : ~IsNone(t.mitigated_date))),
         open_tickets |-> Len(SelectSeq(tks, LAMBDA t : IsNone(t.resolved_date))),
         avg_time_to_resolve_hours |->
            IF Len(resolved_tickets) > 0
            THEN Some(RoundDiv(SumHours(resolved_tickets), Len(resolved_tickets)))
            ELSE None]

get_kpi_data(store, f) ==
    LET tks == SelectSeq(store, LAMBDA t : RowSelected(KpiBaseConditions(t, f)))
        resolved_tickets == SelectSeq(tks, LAMBDA t : ~IsNone(t.time_to_resolve_hours))
    IN  [tickets_created |-> Len(tks),
         tickets_mitigated |-> Len(SelectSeq(tks, LAMBDA t : ~IsNone(t.mitigated_date))),
         open_tickets |-> Len(SelectSeq(tks, LAMBDA t : IsNone(t.resolved_date))),
         avg_time_to_resolve_hours |->
            IF Len(resolved_tickets) > 0
            THEN Some(RoundDiv(SumHours(resolved_tickets), Len(resolved_tickets)))
            ELSE None]

(***************************************************************************)
(* A Python dict: the sequence of its <<key, value>> items in insertion    *)
(* order, which is the order a dict iterates in.                           *)
(***************************************************************************)
DictHas(d, k) == \E i \in 1..Len(d) : d[i][1] = k

DictGet(d, k) == d[CHOOSE i \in 1..Len(d) : d[i][1] = k][2]

\* d[k] = v: a present key keeps its place, a new key goes last.
DictPut(d, k, v) ==
    IF DictHas(d, k)
    THEN [i \in 1..Len(d) |-> IF d[i][1] = k THEN <<k, v>> ELSE d[i]]
    ELSE Append(d, <<k, v>>)

DictKeys(d) == {d[i][1] : i \in 1..Len(d)}

(***************************************************************************)
(* TicketService.get_time_series_data                                      *)
(***************************************************************************)
ZeroCounts == [created |-> 0, mitigated |-> 0, resolved |-> 0]

\* `if key not in daily_data: daily_data[key] = {...zeros}`, then
\* `daily_data[key][field] += 1`.
BumpDay(daily_data, key, field) ==
    LET dd == IF DictHas(daily_data, key) THEN daily_data
              ELSE DictPut(daily_data, key, ZeroCounts)
    IN  DictPut(dd, key, [DictGet(dd, key) EXCEPT ![field] = @ + 1])

\* Every event of a ticket counted in the bucket of its creation date.
CountTicket_CreatedBucketOnly(daily_data, t) ==
    LET key == IsoFormat(DateOf(t.created))
        d1 == BumpDay(daily_data, key, "created")
        d2 == IF TruthyDatetime(t.mitigated_date) THEN BumpDay(d1, key, "mitigated") ELSE d1
    IN  IF TruthyDatetime(t.resolved_date) THEN BumpDay(d2, key, "resolved") ELSE d2

\* The resolved event counted only for a ticket that was mitigated first.
CountTicket_ResolvedAfterMitigation(daily_data, t) ==
    LET d1 == BumpDay(daily_data, IsoFormat(DateOf(t.created)), "created")
    IN  IF TruthyDatetime(t.mitigated_date)
        THEN LET d2 == BumpDay(d1, IsoFormat(DateOf(Val(t.mitigated_date))), "mitigated")
             IN  IF TruthyDatetime(t.resolved_date)
                 THEN BumpDay(d2, IsoFormat(DateOf(Val(t.resolved_date))), "resolved")
                 ELSE d2
        ELSE d1

\* One pass of the loop body for a ticket.
CountTicket(daily_data, t) ==
    LET d1 == BumpDay(daily_data, IsoFormat(DateOf(t.created)), "created")
        d2 == IF TruthyDatetime(t.mitigated_date)
              THEN BumpDay(d1, IsoFormat(DateOf(Val(t.mitigated_date))), "mitigated")
              ELSE d1
    IN  IF TruthyDatetime(t.resolved_date)
        THEN BumpDay(d2, IsoFormat(DateOf(Val(t.resolved_date))), "resolved")
        ELSE d2

RECURSIVE DailyData(_, _)
\* The `for ticket in tickets` loop, from the accumulated daily_data.
DailyData(daily_data, ts) ==
    IF ts = <<>> THEN daily_data
    ELSE DailyData(CountTicket(daily_data, Head(ts)), Tail(ts))

RECURSIVE SortedStrings(_)
\* sorted(keys) of a set of strings.
SortedStrings(S) ==
    IF S = {} THEN <<>>
    ELSE LET m == CHOOSE x \in S : \A y \in S : SeqLeq(x, y)
         IN  <<m>> \o SortedStrings(S \ {m})

get_time_series_data(store, f) ==
    LET daily_data == DailyData(<<>>, get_filtered_tickets(store, f))
        keys == SortedStrings(DictKeys(daily_data))
    IN  [i \in 1..Len(keys) |->
            [date |-> keys[i],
             created |-> DictGet(daily_data, keys[i]).created,
             mitigated |-> DictGet(daily_data, keys[i]).mitigated,
             resolved |-> DictGet(daily_data, keys[i]).resolved]]

(***************************************************************************)
(* TicketService.get_stacked_bar_data                                      *)
(***************************************************************************)
\* A ticket without a severity left out of the counts.
CountStatusSeverity_SkipsNullSeverity(d, t) ==
    IF IsNone(t.severity) THEN d
    ELSE LET status == t.status
             severity == Val(t.severity)
             d1 == IF DictHas(d, status) THEN d ELSE DictPut(d, status, <<>>)
             inner == DictGet(d1, status)
             inner1 == IF DictHas(inner, severity) THEN inner ELSE DictPut(inner, severity, 0)
         IN  DictPut(d1, status, DictPut(inner1, severity, DictGet(inner1, severity) + 1))

\* The loop body for a ticket: status_severity_counts[status][severity] += 1,
\* creating the status entry and the severity counter when missing.
CountStatusSeverity(d, t) ==
    LET status == t.status
        severity == OrDefault(t.severity, "Unknown")
        d1 == IF DictHas(d, status) THEN d ELSE DictPut(d, status, <<>>)
        inner == DictGet(d1, status)
        inner1 == IF DictHas(inner, severity) THEN inner ELSE DictPut(inner, severity, 0)
    IN  DictPut(d1, status, DictPut(inner1, severity, DictGet(inner1, severity) + 1))

RECURSIVE StatusSeverityCounts(_, _)
StatusSeverityCounts(d, ts) ==
    IF ts = <<>> THEN d
    ELSE StatusSeverityCounts(CountStatusSeverity(d, Head(ts)), Tail(ts))

\* `for status, severity_counts in status_severity_counts.items()`
get_stacked_bar_data(store, f) ==
    LET d == StatusSeverityCounts(<<>>, get_filtered_tickets(store, f))
    IN  [i \in 1..Len(d) |-> [status |-> d[i][1], severity_counts |-> d[i][2]]]

(***************************************************************************)
(* TicketService.get_team_ticket_counts                                    *)
(***************************************************************************)
TopTeams == 10

\* team_counts[team] = team_counts.get(team, 0) + 1
CountTeam(d, t) ==
    LET team == OrDefault(t.eng_team, "Unknown")
    IN  DictPut(d, team, (IF DictHas(d, team) THEN DictGet(d, team) ELSE 0) + 1)

RECURSIVE TeamCounts(_, _)
TeamCounts(d, ts) ==
    IF ts = <<>> THEN d
    ELSE TeamCounts(CountTeam(d, Head(ts)), Tail(ts))

\* Place of item x in a list sorted by count descending: after every item
\* whose count is not smaller (the sort is stable, also with reverse=True).
InsertByCountDesc(sorted, x) ==
    LET k == Cardinality({i \in 1..Len(sorted) : sorted[i][2] >= x[2]})
    IN  SubSeq(sorted, 1, k) \o <<x>> \o SubSeq(sorted, k + 1, Len(sorted))

RECURSIVE SortedByCountDesc(_, _)
\* sorted(team_counts.items(), key=lambda x: x[1], reverse=True)
SortedByCountDesc(sorted, items) ==
    IF items = <<>> THEN sorted
    ELSE SortedByCountDesc(InsertByCountDesc(sorted, Head(items)), Tail(items))

\* The first ten teams kept as the dict holds them, and only then sorted.
get_team_ticket_counts_CutBeforeSort(store, f) ==
    LET counted == TeamCounts(<<>>, get_filtered_tickets(store, f))
        ranked == SortedByCountDesc(<<>>, SubSeq(counted, 1, Min2(TopTeams, Len(counted))))
    IN  [i \in 1..Len(ranked) |-> [team |-> ranked[i][1], ticket_count |-> ranked[i][2]]]

get_team_ticket_counts(store, f) ==
    LET ranked == SortedByCountDesc(<<>>, TeamCounts(<<>>, get_filtered_tickets(store, f)))
        result_ == [i \in 1..Len(ranked) |->
                        [team |-> ranked[i][1], ticket_count |-> ranked[i][2]]]
    IN  SubSeq(result_, 1, Min2(TopTeams, Len(result_)))

(***************************************************************************)
(* FlagService.  A call that writes returns the table it leaves and the    *)
(* value it returns: [flags |-> ..., ret |-> ...].                         *)
(***************************************************************************)
\* A UserTicketFlag row.
FlagRow(id, user_id, ticket_id, notes, flagged_at) ==
    [id |-> id, user_id |-> user_id, ticket_id |-> ticket_id,
     flagged_at |-> flagged_at, notes |-> notes]

\* select(UserTicketFlag).where(and_(user_id == .., ticket_id == ..)).first():
\* the first row of the table for the pair, None when there is none.
FirstFlag(table, user_id, ticket_id) ==
    LET at == {i \in 1..Len(table) :
                    table[i].user_id = user_id /\ table[i].ticket_id = ticket_id}
    IN  IF at = {} THEN None
        ELSE Some(table[CHOOSE i \in at : \A j \in at : i <= j])

\* The primary key the store gives a new row: one above the largest in use.
NextFlagId(table) ==
    LET ids == {table[i].id : i \in 1..Len(table)}
    IN  IF ids = {} THEN 1 ELSE 1 + (CHOOSE x \in ids : \A y \in ids : y <= x)

\* The notes of an existing flag replaced by those of the new call.
flag_ticket_UpdatesNotes(table, user_id, ticket_id, notes, utcnow) ==
    LET existing_flag == FirstFlag(table, user_id, ticket_id)
        flag == FlagRow(NextFlagId(table), user_id, ticket_id, notes, utcnow)
    IN  IF ~IsNone(existing_flag)
        THEN [flags |-> [i \in 1..Len(table) |->
                            IF table[i].id = Val(existing_flag).id
                            THEN [table[i] EXCEPT !.notes = notes] ELSE table[i]],
              ret |-> [Val(existing_flag) EXCEPT !.notes = notes]]
        ELSE [flags |-> Append(table, flag), ret |-> flag]

\* A row added without looking for an existing one.
flag_ticket_NoExistenceCheck(table, user_id, ticket_id, notes, utcnow) ==
    LET flag == FlagRow(NextFlagId(table), user_id, ticket_id, notes, utcnow)
    IN  [flags |-> Append(table, flag), ret |-> flag]

\* `if existing_flag is not None: return existing_flag`, else the new row is
\* added, committed and returned.
flag_ticket(table, user_id, ticket_id, notes, utcnow) ==
    LET existing_flag == FirstFlag(table, user_id, ticket_id)
        flag == FlagRow(NextFlagId(table), user_id, ticket_id, notes, utcnow)
    IN  IF ~IsNone(existing_flag)
        THEN [flags |-> table, ret |-> Val(existing_flag)]
        ELSE [flags |-> Append(table, flag), ret |-> flag]

\* session.delete(flag): the row of that primary key leaves the table.
DeleteFlag(table, flag) == SelectSeq(table, LAMBDA row : row.id /= flag.id)

\* Every flag on the ticket deleted, whoever set it.
unflag_ticket_AnyUser(table, user_id, ticket_id) ==
    LET flag == FirstFlag(table, user_id, ticket_id)
    IN  IF ~IsNone(flag)
        THEN [flags |-> SelectSeq(table, LAMBDA row : row.ticket_id /= ticket_id),
              ret |-> TRUE]
        ELSE [flags |-> table, ret |-> FALSE]

unflag_ticket(table, user_id, ticket_id) ==
    LET flag == FirstFlag(table, user_id, ticket_id)
    IN  IF ~IsNone(flag)
        THEN [flags |-> DeleteFlag(table, Val(flag)), ret |-> TRUE]
        ELSE [flags |-> table, ret |-> FALSE]

RECURSIVE BulkUnflagLoop(_, _, _, _)
\* `for ticket_id in ticket_ids: if unflag_ticket(..): unflagged_count += 1`
BulkUnflagLoop(table, user_id, ticket_ids, unflagged_count) ==
    IF ticket_ids = <<>> THEN [flags |-> table, ret |-> unflagged_count]
    ELSE LET r == unflag_ticket(table, user_id, Head(ticket_ids))
         IN  BulkUnflagLoop(r.flags, user_id, Tail(ticket_ids),
                            IF r.ret THEN unflagged_count + 1 ELSE unflagged_count)

RECURSIVE BulkUnflagLoop_CountsEveryId(_, _, _, _)
\* The counter raised for every id of the list.
BulkUnflagLoop_CountsEveryId(table, user_id, ticket_ids, unflagged_count) ==
    IF ticket_ids = <<>> THEN [flags |-> table, ret |-> unflagged_count]
    ELSE LET r == unflag_ticket(table, user_id, Head(ticket_ids))
         IN  BulkUnflagLoop_CountsEveryId(r.flags, user_id, Tail(ticket_ids),
                                          unflagged_count + 1)

bulk_unflag_tickets_CountsEveryId(table, user_id, ticket_ids) ==
    BulkUnflagLoop_CountsEveryId(table, user_id, ticket_ids, 0)

bulk_unflag_tickets(table, user_id, ticket_ids) ==
    BulkUnflagLoop(table, user_id, ticket_ids, 0)

\* A flag of any user on the ticket taken for the user's.
is_ticket_flagged_AnyUser(table, user_id, ticket_id) ==
    \E i \in 1..Len(table) : table[i].ticket_id = ticket_id

is_ticket_flagged(table, user_id, ticket_id) ==
    ~IsNone(FirstFlag(table, user_id, ticket_id))

\* The `conditions` list of get_flagged_tickets, evaluated on ticket row t.
FlaggedConditions(t, f) ==
    (IF TruthyDatetime(f.date_start) THEN <<SqlGe(t.created, Val(f.date_start))>> ELSE <<>>)
    \o (IF TruthyDatetime(f.date_end) THEN <<SqlLe(t.created, Val(f.date_end))>> ELSE <<>>)
    \o (IF TruthyList(f.teams) THEN <<SqlIn(t.eng_team, Val(f.teams))>> ELSE <<>>)
    \o (IF TruthyList(f.severities) THEN <<SqlIn(t.severity, Val(f.severities))>> ELSE <<>>)
    \o (IF TruthyList(f.statuses) THEN <<SqlIn(Some(t.status), Val(f.statuses))>> ELSE <<>>)

\* The join computed on a table that lacks its newest row.
JoinFlags_WithoutNewestRow(store, table) ==
    LET stale == SubSeq(table, 1, Len(table) - 1)
        pairs == [i \in 1..(Len(store) * Len(stale)) |->
                    <<store[((i - 1) \div Len(stale)) + 1],
                      stale[((i - 1) % Len(stale)) + 1]>>]
    IN  SelectSeq(pairs, LAMBDA p : p[1].id = p[2].ticket_id)

\* select(ESTicket, UserTicketFlag).join(.., ESTicket.id == ticket_id): the
\* pairs <<ticket, flag>> of the join, ticket by ticket.
JoinFlags(store, table) ==
    LET pairs == [i \in 1..(Len(store) * Len(table)) |->
                    <<store[((i - 1) \div Len(table)) + 1],
                      table[((i - 1) % Len(table)) + 1]>>]
    IN  SelectSeq(pairs, LAMBDA p : p[1].id = p[2].ticket_id)

\* The join left without its restriction to the user.
get_flagged_tickets_AllUsers(store, table, user_id, f) ==
    SelectSeq(JoinFlags(store, table),
              LAMBDA p : RowSelected(FlaggedConditions(p[1], f)))

get_flagged_tickets(store, table, user_id, f) ==
    SelectSeq(JoinFlags(store, table),
              LAMBDA p : /\ p[2].user_id = user_id
                         /\ RowSelected(FlaggedConditions(p[1], f)))

(***************************************************************************)
(* ExportService.export_flagged_tickets_csv.  The text is the sequence of  *)
(* its lines, a line the sequence of its cells.                            *)
(***************************************************************************)
\* datetime.isoformat(): "YYYY-MM-DDTHH:MM:SS"; 84 is "T", 58 is ":".
IsoFormatDatetime(dt) ==
    IsoFormat(DateOf(dt)) \o <<84>> \o Pad2(dt[4]) \o <<58>> \o Pad2(0) \o <<58>> \o Pad2(0)

\* export_data[0].model_fields.keys(): the fields of TicketExportRow.
ExportColumns ==
    <<"key", "title", "team", "severity", "status", "created", "updated", "assignee",
      "time_to_resolve_hours", "flagged_at", "flag_notes">>

\* The cell csv writes for an optional value: the empty string for None.
CsvCell(o) == IF IsNone(o) THEN "" ELSE Val(o)

\* str() of a Decimal with two places, given in hundredths (below 100.00):
\* the digits of the whole part, ".", two digits; 46 is ".".
DecimalStr(h) == Unpadded(h \div 100) \o <<46>> \o Pad2(h % 100)

\* The cell of time_to_resolve_hours: no character for None.
DecimalCell(o) == IF IsNone(o) THEN <<>> ELSE DecimalStr(Val(o))

\* The data line of a (ticket, flag) pair: the TicketExportRow built from it,
\* its cells in the order of the columns.
ExportLine(ticket, flag) ==
    <<ticket.key, ticket.summary, CsvCell(ticket.eng_team), CsvCell(ticket.severity),
      ticket.status, IsoFormatDatetime(ticket.created), IsoFormatDatetime(ticket.updated),
      CsvCell(ticket.assignee), DecimalCell(ticket.time_to_resolve_hours),
      IsoFormatDatetime(flag.flagged_at), CsvCell(flag.notes)>>

\* `if export_data:` writeheader() and a writerow() per row; nothing is
\* written otherwise.
export_flagged_tickets_csv_NewestFirst(store, table, user_id, f) ==
    LET flagged_tickets == get_flagged_tickets(store, table, user_id, f)
        n == Len(flagged_tickets)
    IN  IF n > 0
        THEN <<ExportColumns>> \o
             [i \in 1..n |->
                ExportLine(flagged_tickets[n + 1 - i][1], flagged_tickets[n + 1 - i][2])]
        ELSE <<>>

export_flagged_tickets_csv(store, table, user_id, f) ==
    LET flagged_tickets == get_flagged_tickets(store, table, user_id, f)
    IN  IF Len(flagged_tickets) > 0
        THEN <<ExportColumns>> \o
             [i \in 1..Len(flagged_tickets) |->
                ExportLine(flagged_tickets[i][1], flagged_tickets[i][2])]
        ELSE <<>>

(***************************************************************************)
(* DashboardService: the mutations of the tickets table.                   *)
(*   A Ticket row holds the columns the mutations read or write; status is *)
(*   one of the TicketStatus members the service names.                    *)
(***************************************************************************)
TicketStatusValues == {"OPEN", "IN_PROGRESS", "RESOLVED", "CLOSED"}

DashTicket(id, title, status, assignee_id, updated_at, resolved_at) ==
    [id |-> id, title |-> title, status |-> status, assignee_id |-> assignee_id,
     updated_at |-> updated_at, resolved_at |-> resolved_at]

\* session.get(Ticket, ticket_id): the row with that primary key, or None.
GetTicket(table, ticket_id) ==
    LET hits == {i \in 1..Len(table) : table[i].id = ticket_id}
    IN  IF hits = {} THEN None ELSE Some(CHOOSE i \in hits : TRUE)

\* update_ticket_status leaving resolved_at alone when a ticket is reopened.
ResolvedAtAfter_KeptOnReopen(ticket, status, utcnow) ==
    IF status \in {"RESOLVED", "CLOSED"} /\ IsNone(ticket.resolved_at)
    THEN Some(utcnow) ELSE ticket.resolved_at

\* The resolved_at of a ticket after update_ticket_status gave it `status`.
ResolvedAtAfter(ticket, status, utcnow) ==
    IF status \in {"RESOLVED", "CLOSED"}
    THEN IF IsNone(ticket.resolved_at) THEN Some(utcnow) ELSE ticket.resolved_at
    ELSE IF status \in {"OPEN", "IN_PROGRESS"} THEN None
    ELSE ticket.resolved_at

update_ticket_status(table, ticket_id, status, utcnow) ==
    LET found == GetTicket(table, ticket_id)
    IN  IF IsNone(found) THEN [tickets |-> table, ret |-> FALSE]
        ELSE LET i == Val(found)
                 ticket == table[i]
             IN  [tickets |->
                    [table EXCEPT ![i] =
                        [ticket EXCEPT !.status = status,
                                       !.updated_at = utcnow,
                                       !.resolved_at = ResolvedAtAfter(ticket, status, utcnow)]],
                  ret |-> TRUE]

\* TicketUpdate.model_dump(exclude_unset=True, exclude_none=True) followed by
\* setattr: a field of update_data that is None leaves the column alone.
ApplyUpdate(ticket, update_data) ==
    [ticket EXCEPT
        !.title = IF IsNone(update_data.title) THEN @ ELSE Val(update_data.title)]

update_ticket(table, ticket_id, update_data, utcnow) ==
    LET found == GetTicket(table, ticket_id)
    IN  IF IsNone(found) THEN [tickets |-> table, ret |-> FALSE]
        ELSE LET i == Val(found)
             IN  [tickets |->
                    [table EXCEPT ![i] =
                        [ApplyUpdate(table[i], update_data) EXCEPT !.updated_at = utcnow]],
                  ret |-> TRUE]

delete_ticket(table, ticket_id) ==
    LET found == GetTicket(table, ticket_id)
    IN  IF IsNone(found) THEN [tickets |-> table, ret |-> FALSE]
        ELSE [tickets |-> SelectSeq(table, LAMBDA t : t.id # ticket_id), ret |-> TRUE]

\* assign_ticket that does not look the assignee up.
assign_ticket_NoUserCheck(table, stored_users, ticket_id, assignee_id, utcnow) ==
    LET found == GetTicket(table, ticket_id)
    IN  IF IsNone(found) THEN [tickets |-> table, ret |-> FALSE]
        ELSE [tickets |->
                [table EXCEPT ![Val(found)].assignee_id = assignee_id,
                              ![Val(found)].updated_at = utcnow],
              ret |-> TRUE]

\* assignee_id None unassigns; a non-null assignee_id must be a stored user.
assign_ticket(table, stored_users, ticket_id, assignee_id, utcnow) ==
    LET found == GetTicket(table, ticket_id)
    IN  IF IsNone(found) THEN [tickets |-> table, ret |-> FALSE]
        ELSE IF ~IsNone(assignee_id) /\ Val(assignee_id) \notin stored_users
        THEN [tickets |-> table, ret |-> FALSE]
        ELSE [tickets |->
                [table EXCEPT ![Val(found)].assignee_id = assignee_id,
                              ![Val(found)].updated_at = utcnow],
              ret |-> TRUE]

(***************************************************************************)
(* FilterState (components.py): the filter bar's state and its conversion  *)
(* to FilterParams and to and from URL parameters.                         *)
(*   date: <<year, month, day>>; a datetime built by datetime.combine has  *)
(*   the seven fields <<year, month, day, hour, minute, second, micro>>.   *)
(*   str: the sequence of its character codes.                             *)
(*   URL params: a record with one Optional per key, None for a key that   *)
(*   is not in the dict.                                                   *)
(***************************************************************************)
IsLeapYear(y) == (y % 4 = 0 /\ y % 100 # 0) \/ y % 400 = 0

DaysInMonth(y, m) ==
    IF m = 2 THEN (IF IsLeapYear(y) THEN 29 ELSE 28)
    ELSE IF m \in {4, 6, 9, 11} THEN 30 ELSE 31

\* d - timedelta(days=1) and d + timedelta(days=1).
PrevDay(d) ==
    IF d[3] > 1 THEN <<d[1], d[2], d[3] - 1>>
    ELSE IF d[2] > 1 THEN <<d[1], d[2] - 1, DaysInMonth(d[1], d[2] - 1)>>
    ELSE <<d[1] - 1, 12, 31>>

NextDay(d) ==
    IF d[3] < DaysInMonth(d[1], d[2]) THEN <<d[1], d[2], d[3] + 1>>
    ELSE IF d[2] < 12 THEN <<d[1], d[2] + 1, 1>>
    ELSE <<d[1] + 1, 1, 1>>

RECURSIVE MinusDays(_, _)
\* d - timedelta(days=n).
MinusDays(d, n) == IF n = 0 THEN d ELSE MinusDays(PrevDay(d), n - 1)

\* date.today() of the run.
Today == <<2024, 3, 2>>

\* FilterState.__init__ and the Reset button: the last 30 days, no lists.
DefaultDays == 30

NewFilterState ==
    [date_start |-> Some(MinusDays(Today, DefaultDays)), date_end |-> Some(Today),
     teams |-> <<>>, severities |-> <<>>, statuses |-> <<>>]

\* datetime.min.time() is 00:00:00, datetime.max.time() is 23:59:59.999999.
MinTime == <<0, 0, 0, 0>>

MaxTime == <<23, 59, 59, 999999>>

Combine(d, t) == d \o t

\* to_filter_params with the end date taken at the start of its day.
to_filter_params_EndAtMidnight(state) ==
    [date_start |-> IF ~IsNone(state.date_start)
                    THEN Some(Combine(Val(state.date_start), MinTime)) ELSE None,
     date_end |-> IF ~IsNone(state.date_end)
                  THEN Some(Combine(Val(state.date_end), MinTime)) ELSE None,
     teams |-> IF Len(state.teams) > 0 THEN Some(state.teams) ELSE None,
     severities |-> IF Len(state.severities) > 0 THEN Some(state.severities) ELSE None,
     statuses |-> IF Len(state.statuses) > 0 THEN Some(state.statuses) ELSE None]

\* A date is always truthy; an empty list is falsy and becomes None.
to_filter_params(state) ==
    [date_start |-> IF ~IsNone(state.date_start)
                    THEN Some(Combine(Val(state.date_start), MinTime)) ELSE None,
     date_end |-> IF ~IsNone(state.date_end)
                  THEN Some(Combine(Val(state.date_end), MaxTime)) ELSE None,
     teams |-> IF Len(state.teams) > 0 THEN Some(state.teams) ELSE None,
     severities |-> IF Len(state.severities) > 0 THEN Some(state.severities) ELSE None,
     statuses |-> IF Len(state.statuses) > 0 THEN Some(state.statuses) ELSE None]

IsDigit(c) == c \in 48..57

DigitsValue(s, from, to) ==
    LET RECURSIVE Acc(_, _)
        Acc(i, v) == IF i > to THEN v ELSE Acc(i + 1, 10 * v + (s[i] - 48))
    IN  Acc(from, 0)

\* The "YYYY-MM-DD" at the head of s names a calendar date.
IsIsoDateAt(s) ==
    /\ Len(s) >= 10
    /\ \A i \in {1, 2, 3, 4, 6, 7, 9, 10} : IsDigit(s[i])
    /\ s[5] = 45 /\ s[8] = 45
    /\ DigitsValue(s, 1, 4) >= 1
    /\ DigitsValue(s, 6, 7) \in 1..12
    /\ DigitsValue(s, 9, 10) \in 1..DaysInMonth(DigitsValue(s, 1, 4), DigitsValue(s, 6, 7))

\* The "Thh:mm:ss" (or " hh:mm:ss") at positions 11..19 names a time of day;
\* 84 is "T", 32 is " ", 58 is ":".
IsIsoTimeAt(s) ==
    /\ Len(s) = 19
    /\ s[11] \in {84, 32}
    /\ \A i \in {12, 13, 15, 16, 18, 19} : IsDigit(s[i])
    /\ s[14] = 58 /\ s[17] = 58
    /\ DigitsValue(s, 12, 13) \in 0..23
    /\ DigitsValue(s, 15, 16) \in 0..59
    /\ DigitsValue(s, 18, 19) \in 0..59

\* datetime.fromisoformat(s).date() for the forms "YYYY-MM-DD" and
\* "YYYY-MM-DDThh:mm:ss": the date, or None where it raises ValueError.
ParseIsoDate(s) ==
    IF IsIsoDateAt(s) /\ (Len(s) = 10 \/ IsIsoTimeAt(s))
    THEN Some(<<DigitsValue(s, 1, 4), DigitsValue(s, 6, 7), DigitsValue(s, 9, 10)>>)
    ELSE None

RECURSIVE SplitOn(_, _)
\* str.split(sep) for a one-character sep; the empty string gives [""].
SplitOn(s, sep) ==
    LET seps == {i \in 1..Len(s) : s[i] = sep}
    IN  IF seps = {} THEN <<s>>
        ELSE LET k == CHOOSE i \in seps : \A j \in seps : i <= j
             IN  <<SubSeq(s, 1, k - 1)>> \o SplitOn(SubSeq(s, k + 1, Len(s)), sep)

\* str.split(","): 44 is ",".
Split(s) == SplitOn(s, 44)

RECURSIVE Join(_)
\* ",".join(list).
Join(list) ==
    IF Len(list) = 0 THEN <<>>
    ELSE IF Len(list) = 1 THEN list[1]
    ELSE list[1] \o <<44>> \o Join(Tail(list))

\* `if "k" in params and params["k"]:` - the key is there with a non-empty str.
TruthyParam(o) == ~IsNone(o) /\ Len(Val(o)) > 0

\* One date field after from_url_params: a string that does not parse is
\* logged and the field keeps its value.
DateFromParam(old, o) ==
    IF TruthyParam(o) /\ ~IsNone(ParseIsoDate(Val(o))) THEN ParseIsoDate(Val(o)) ELSE old

ListFromParam(old, o) == IF TruthyParam(o) THEN Split(Val(o)) ELSE old

\* from_url_params that gives up at the first date that does not parse.
from_url_params_StopsAtBadDate(state, params) ==
    IF TruthyParam(params.date_start) /\ IsNone(ParseIsoDate(Val(params.date_start)))
    THEN state
    ELSE IF TruthyParam(params.date_end) /\ IsNone(ParseIsoDate(Val(params.date_end)))
    THEN [state EXCEPT !.date_start = DateFromParam(@, params.date_start)]
    ELSE [date_start |-> DateFromParam(state.date_start, params.date_start),
          date_end |-> DateFromParam(state.date_end, params.date_end),
          teams |-> ListFromParam(state.teams, params.teams),
          severities |-> ListFromParam(state.severities, params.severities),
          statuses |-> ListFromParam(state.statuses, params.statuses)]

from_url_params(state, params) ==
    [date_start |-> DateFromParam(state.date_start, params.date_start),
     date_end |-> DateFromParam(state.date_end, params.date_end),
     teams |-> ListFromParam(state.teams, params.teams),
     severities |-> ListFromParam(state.severities, params.severities),
     statuses |-> ListFromParam(state.statuses, params.statuses)]

\* A key is written only for a field that is set (a date, a non-empty list).
to_url_params(state) ==
    [date_start |-> IF ~IsNone(state.date_start)
                    THEN Some(IsoFormat(Val(state.date_start))) ELSE None,
     date_end |-> IF ~IsNone(state.date_end)
                  THEN Some(IsoFormat(Val(state.date_end))) ELSE None,
     teams |-> IF Len(state.teams) > 0 THEN Some(Join(state.teams)) ELSE None,
     severities |-> IF Len(state.severities) > 0 THEN Some(Join(state.severities)) ELSE None,
     statuses |-> IF Len(state.statuses) > 0 THEN Some(Join(state.statuses)) ELSE None]

(***************************************************************************)
(* The state machine: one caller that inserts rows and calls the services  *)
(* one after another.                                                      *)
(*   tickets  the es_tickets rows, in the order a select returns them      *)
(*   flags    the user_ticket_flags rows, in the same way                  *)
(*   op       "idle", or the service call whose return value is held       *)
(*   filters  the FilterParams that call was given                         *)
(*   args     the other arguments that call was given                      *)
(*   result   the value it returned                                        *)
(*   sessions the flag_ticket calls that run step by step                  *)
(*   dash_tickets  the tickets rows DashboardService works on              *)
(*   users         the ids of the stored users                             *)
(*   filter_state  the FilterState of the dashboard page                   *)
(*   refresh       the DashboardState: containers and the refresh pass     *)
(*   seed_batches  the es_tickets rows SeedService wrote, batch by batch   *)
(***************************************************************************)
\* FilterParams(): every field defaults to None.
NoFilter ==
    [date_start |-> None, date_end |-> None, teams |-> None,
     severities |-> None, statuses |-> None]

\* An ESTicket row; the columns the analytics read.
TicketRow(created, eng_team, severity, status, mitigated_date, resolved_date, hours) ==
    [created |-> created, eng_team |-> eng_team, severity |-> severity,
     status |-> status, mitigated_date |-> mitigated_date,
     resolved_date |-> resolved_date, time_to_resolve_hours |-> hours]

\* The primary key is assigned by the store on insert.
WithId(row, id) == [id |-> id] @@ row

\* The columns of an ESTicket row that only the export reads.
WithExportFields(row, key, summary, updated, assignee) ==
    [key |-> key, summary |-> summary, updated |-> updated, assignee |-> assignee] @@ row

\* The arguments of a call besides its FilterParams, when it has none.
NoArgs == [user_id |-> 0, ticket_id |-> 0, notes |-> None, ticket_ids |-> <<>>]

\* The sessions that may run flag_ticket at the same time.
SessionIds == {"s1", "s2"}

\* A session in which no call is running.
NoCall == [pc |-> "idle", user_id |-> 0, ticket_id |-> 0, notes |-> None, ret |-> None]

(***************************************************************************)
(* DashboardState (dashboard.py): the four containers and one pass of      *)
(* refresh_dashboard, taken query by query since every TicketService and   *)
(* FlagService call opens a session of its own.                            *)
(*   pc          "idle" (no pass yet), "done", or the query the pass runs  *)
(*               next                                                      *)
(*   containers  the containers that are set (not None)                    *)
(*   steps       the refresh_* methods the pass has entered, in order      *)
(*   kpi, series, bar, team, rows, flagged                                 *)
(*               what the containers show: None after clear(), or the      *)
(*               value of the service call that was rendered               *)
(*   errors      the containers that show an inline error label            *)
(*   raised      refresh_dashboard ended with an exception                 *)
(***************************************************************************)
\* The containers in the order dashboard_page sets them.
ContainerOrder == <<"kpi", "charts", "tickets", "flagged">>

\* DashboardState.__init__: every container None, nothing shown.
NoRefresh ==
    [pc |-> "idle", containers |-> {}, steps |-> <<>>,
     kpi |-> None, series |-> None, bar |-> None, team |-> None,
     rows |-> None, flagged |-> None, errors |-> {}, raised |-> FALSE]

current_user_id == 1

\* An exception of a service call that leaves refresh_dashboard uncaught.
StepFailed_Propagates(r, container, next) == [r EXCEPT !.pc = "done", !.raised = TRUE]

\* `except Exception as e:` of a refresh_* method: the error is logged and
\* shown as a label in the container, and the method returns.
StepFailed(r, container, next) == [r EXCEPT !.pc = next, !.errors = @ \cup {container}]

\* `with container: container.clear()` on entering a refresh_* method.
Entered(r, container, step) ==
    [r EXCEPT !.steps = Append(@, step), !.errors = @ \ {container}]

\* refresh_kpis, when refresh_dashboard finds kpi_container set.
refresh_kpis(r, store, f, fails) ==
    LET e == [Entered(r, "kpi", "refresh_kpis") EXCEPT !.kpi = None]
    IN  IF fails THEN StepFailed(e, "kpi", "series")
        ELSE [e EXCEPT !.kpi = Some(get_kpi_data(store, f)), !.pc = "series"]

\* refresh_charts up to its first query, get_time_series_data.
refresh_charts_series(r, store, f, fails) ==
    LET e == [Entered(r, "charts", "refresh_charts") EXCEPT
                !.series = None, !.bar = None, !.team = None]
    IN  IF fails THEN StepFailed(e, "charts", "tickets")
        ELSE [e EXCEPT !.series = Some(get_time_series_data(store, f)), !.pc = "bar"]

\* refresh_charts from there to get_stacked_bar_data.
refresh_charts_bar(r, store, f, fails) ==
    IF fails THEN StepFailed(r, "charts", "tickets")
    ELSE [r EXCEPT !.bar = Some(get_stacked_bar_data(store, f)), !.pc = "team"]

\* refresh_charts from there to get_team_ticket_counts and its end.
refresh_charts_team(r, store, f, fails) ==
    IF fails THEN StepFailed(r, "charts", "tickets")
    ELSE [r EXCEPT !.team = Some(get_team_ticket_counts(store, f)), !.pc = "tickets"]

\* refresh_tickets_tab: the table shows len(tickets) rows.
refresh_tickets_tab(r, store, f, fails) ==
    LET e == [Entered(r, "tickets", "refresh_tickets_tab") EXCEPT !.rows = None]
    IN  IF fails THEN StepFailed(e, "tickets", "flagged")
        ELSE [e EXCEPT !.rows = Some(Len(get_filtered_tickets(store, f))), !.pc = "flagged"]

refresh_flagged_tab(r, store, table, f, fails) ==
    LET e == [Entered(r, "flagged", "refresh_flagged_tab") EXCEPT !.flagged = None]
    IN  IF fails THEN StepFailed(e, "flagged", "url_params")
        ELSE [e EXCEPT
                !.flagged = Some(Len(get_flagged_tickets(store, table, current_user_id, f))),
                !.pc = "url_params"]

\* The application state the ticket analytics and the flag services leave alone.
AppInit ==
    /\ dash_tickets = <<>>
    /\ users = {}
    /\ filter_state = NewFilterState
    /\ refresh = NoRefresh
    /\ seed_batches = <<>>

Init ==
    /\ tickets = <<>>
    /\ flags = <<>>
    /\ filters = NoFilter
    /\ args = NoArgs
    /\ op = "idle"
    /\ result = <<>>
    /\ sessions = [s \in SessionIds |-> NoCall]
    /\ AppInit

\* session.add(ticket); session.commit() of a row drawn from Rows, while the
\* table holds fewer than maxRows rows.
InsertTicket(Rows, maxRows) ==
    /\ op = "idle"
    /\ Len(tickets) < maxRows
    /\ \E row \in Rows : tickets' = Append(tickets, WithId(row, Len(tickets) + 1))
    /\ UNCHANGED <<flags, filters, args, op, result, sessions, appVars>>

CallGetFilteredTickets(Filters) ==
    /\ op = "idle"
    /\ \E f \in Filters :
        /\ filters' = f
        /\ op' = "get_filtered_tickets"
        /\ result' = get_filtered_tickets(tickets, f)
        /\ UNCHANGED <<tickets, flags, args, sessions, appVars>>

CallGetKpiData(Filters) ==
    /\ op = "idle"
    /\ \E f \in Filters :
        /\ filters' = f
        /\ op' = "get_kpi_data"
        /\ result' = get_kpi_data(tickets, f)
        /\ UNCHANGED <<tickets, flags, args, sessions, appVars>>

CallGetTimeSeriesData(Filters) ==
    /\ op = "idle"
    /\ \E f \in Filters :
        /\ filters' = f
        /\ op' = "get_time_series_data"
        /\ result' = get_time_series_data(tickets, f)
        /\ UNCHANGED <<tickets, flags, args, sessions, appVars>>

CallGetStackedBarData(Filters) ==
    /\ op = "idle"
    /\ \E f \in Filters :
        /\ filters' = f
        /\ op' = "get_stacked_bar_data"
        /\ result' = get_stacked_bar_data(tickets, f)
        /\ UNCHANGED <<tickets, flags, args, sessions, appVars>>

CallGetTeamTicketCounts(Filters) ==
    /\ op = "idle"
    /\ \E f \in Filters :
        /\ filters' = f
        /\ op' = "get_team_ticket_counts"
        /\ result' = get_team_ticket_counts(tickets, f)
        /\ UNCHANGED <<tickets, flags, args, sessions, appVars>>

\* The caller is done with the value a service call returned.
Return ==
    /\ op /= "idle"
    /\ op' = "idle"
    /\ filters' = NoFilter
    /\ args' = NoArgs
    /\ result' = <<>>
    /\ UNCHANGED <<tickets, flags, sessions, appVars>>

\* The ids of the stored tickets, and those together with an id that no
\* stored ticket has.
TicketIds == {tickets[i].id : i \in 1..Len(tickets)}

AnyTicketIds == TicketIds \cup {Len(tickets) + 1}

\* flag_ticket(user_id, ticket_id, notes) of a stored ticket (ticket_id is a
\* foreign key to es_tickets.id), at time utcnow, while the call leaves at
\* most maxFlags rows and gives out no primary key above maxId.
CallFlagTicket(Users, Notes, Times, maxFlags, maxId) ==
    /\ op = "idle"
    /\ \E user_id \in Users, ticket_id \in TicketIds, notes \in Notes, utcnow \in Times :
        LET r == flag_ticket(flags, user_id, ticket_id, notes, utcnow)
        IN  /\ Len(r.flags) <= maxFlags
            /\ r.ret.id <= maxId
            /\ flags' = r.flags
            /\ args' = [NoArgs EXCEPT !.user_id = user_id, !.ticket_id = ticket_id,
                                      !.notes = notes]
            /\ op' = "flag_ticket"
            /\ result' = r.ret
    /\ UNCHANGED <<tickets, filters, sessions, appVars>>

CallUnflagTicket(Users) ==
    /\ op = "idle"
    /\ \E user_id \in Users, ticket_id \in AnyTicketIds :
        LET r == unflag_ticket(flags, user_id, ticket_id)
        IN  /\ flags' = r.flags
            /\ args' = [NoArgs EXCEPT !.user_id = user_id, !.ticket_id = ticket_id]
            /\ op' = "unflag_ticket"
            /\ result' = r.ret
    /\ UNCHANGED <<tickets, filters, sessions, appVars>>

CallBulkUnflagTickets(Users, IdLists) ==
    /\ op = "idle"
    /\ \E user_id \in Users, ticket_ids \in IdLists :
        LET r == bulk_unflag_tickets(flags, user_id, ticket_ids)
        IN  /\ flags' = r.flags
            /\ args' = [NoArgs EXCEPT !.user_id = user_id, !.ticket_ids = ticket_ids]
            /\ op' = "bulk_unflag_tickets"
            /\ result' = r.ret
    /\ UNCHANGED <<tickets, filters, sessions, appVars>>

CallIsTicketFlagged(Users) ==
    /\ op = "idle"
    /\ \E user_id \in Users, ticket_id \in AnyTicketIds :
        /\ args' = [NoArgs EXCEPT !.user_id = user_id, !.ticket_id = ticket_id]
        /\ op' = "is_ticket_flagged"
        /\ result' = is_ticket_flagged(flags, user_id, ticket_id)
    /\ UNCHANGED <<tickets, flags, filters, sessions, appVars>>

CallGetFlaggedTickets(Users, Filters) ==
    /\ op = "idle"
    /\ \E user_id \in Users, f \in Filters :
        /\ args' = [NoArgs EXCEPT !.user_id = user_id]
        /\ filters' = f
        /\ op' = "get_flagged_tickets"
        /\ result' = get_flagged_tickets(tickets, flags, user_id, f)
    /\ UNCHANGED <<tickets, flags, sessions, appVars>>

CallExportFlaggedTicketsCsv(Users, Filters) ==
    /\ op = "idle"
    /\ \E user_id \in Users, f \in Filters :
        /\ args' = [NoArgs EXCEPT !.user_id = user_id]
        /\ filters' = f
        /\ op' = "export_flagged_tickets_csv"
        /\ result' = export_flagged_tickets_csv(tickets, flags, user_id, f)
    /\ UNCHANGED <<tickets, flags, sessions, appVars>>

\* flag_ticket in session s, first step: the select of the existing flag.
\* A flag found is returned at once; otherwise the session goes on to insert.
\* A call starts while the table and the inserts under way stay within
\* maxFlags rows.
FlagTicketSelect(s, Users, Notes, maxFlags) ==
    /\ sessions[s].pc = "idle"
    /\ Len(flags) + Cardinality({x \in SessionIds : sessions[x].pc = "insert"}) < maxFlags
    /\ \E user_id \in Users, ticket_id \in TicketIds, notes \in Notes :
        LET existing_flag == FirstFlag(flags, user_id, ticket_id)
        IN  sessions' = [sessions EXCEPT ![s] =
                [pc |-> IF IsNone(existing_flag) THEN "insert" ELSE "returned",
                 user_id |-> user_id, ticket_id |-> ticket_id, notes |-> notes,
                 ret |-> existing_flag]]
    /\ UNCHANGED <<tickets, flags, filters, args, op, result, appVars>>

\* flag_ticket in session s, second step: session.add(flag), session.commit()
\* and session.refresh(flag) of the new row, which is returned.
FlagTicketCommit(s, Times) ==
    /\ sessions[s].pc = "insert"
    /\ \E utcnow \in Times :
        LET flag == FlagRow(NextFlagId(flags), sessions[s].user_id, sessions[s].ticket_id,
                            sessions[s].notes, utcnow)
        IN  /\ flags' = Append(flags, flag)
            /\ sessions' = [sessions EXCEPT ![s].pc = "returned", ![s].ret = Some(flag)]
    /\ UNCHANGED <<tickets, filters, args, op, result, appVars>>

\* The caller of session s is done with the flag it was returned.
FlagTicketReturn(s) ==
    /\ sessions[s].pc = "returned"
    /\ sessions' = [sessions EXCEPT ![s] = NoCall]
    /\ UNCHANGED <<tickets, flags, filters, args, op, result, appVars>>

(***************************************************************************)
(* Bounded inputs.  Day(d, h) is hour h of 2024-01-d; the days run over    *)
(* the 9th to the 11th, where the day number gains a digit.                *)
(***************************************************************************)
Day(d, h) == <<2024, 1, d, h>>

FiltersOver(Starts, Ends, Teams, Severities, Statuses) ==
    [date_start : Starts, date_end : Ends, teams : Teams,
     severities : Severities, statuses : Statuses]

RowsOver(Created, Teams, Severities, Statuses, Mitigated, Resolved, Hours) ==
    {TicketRow(c, t, sv, st, m, r, h) :
        c \in Created, t \in Teams, sv \in Severities, st \in Statuses,
        m \in Mitigated, r \in Resolved, h \in Hours}

\* get_filtered_tickets: rows and filters that exercise every condition.
MaxFilterStore == 2

FilterRows ==
    RowsOver({Day(9, 12), Day(10, 12)}, {None, Some("Data"), Some("Platform")},
             {None, Some("High")}, {"Open", "Resolved"}, {None}, {None}, {None})

FilterTeamChoices == {None, Some(<<>>), Some(<<"Data">>), Some(<<"Data", "Platform">>)}

FilterFilters ==
    FiltersOver({None, Some(Day(10, 12))}, {None, Some(Day(9, 12))},
                FilterTeamChoices,
                {None, Some(<<>>), Some(<<"High">>)},
                {None, Some(<<"Open">>)})

FilterNext ==
    \/ InsertTicket(FilterRows, MaxFilterStore)
    \/ CallGetFilteredTickets(FilterFilters)
    \/ Return

FilterSpec == Init /\ [][FilterNext]_vars

\* get_kpi_data: rows created inside and outside a date window, mitigated
\* (after the window) or not, and resolved or not; a resolved row carries its
\* resolve duration (1.00 or 2.00 hours, in hundredths), as the seed writes it.
MaxKpiStore == 4

KpiRows ==
    {TicketRow(c, Some("Data"), Some("High"), "Open", m, r[1], r[2]) :
        c \in {Day(9, 12), Day(10, 12)},
        m \in {None, Some(Day(11, 0))},
        r \in {<<None, None>>, <<Some(Day(11, 0)), Some(100)>>,
               <<Some(Day(11, 0)), Some(200)>>}}

KpiFilters ==
    FiltersOver({None}, {None, Some(Day(9, 12))}, {None}, {None}, {None})

KpiNext ==
    \/ InsertTicket(KpiRows, MaxKpiStore)
    \/ CallGetKpiData(KpiFilters)
    \/ Return

KpiSpec == Init /\ [][KpiNext]_vars

\* get_stacked_bar_data: rows of two statuses, with and without a severity,
\* of two teams so that a team filter drops some.
MaxBarStore == 3

BarRows ==
    RowsOver({Day(9, 12)}, {Some("Data"), Some("Platform")},
             {None, Some("High"), Some("Low")}, {"Open", "Resolved"},
             {None}, {None}, {None})

BarFilters ==
    FiltersOver({None}, {None}, {None, Some(<<"Data">>)}, {None}, {None})

BarNext ==
    \/ InsertTicket(BarRows, MaxBarStore)
    \/ CallGetStackedBarData(BarFilters)
    \/ Return

BarSpec == Init /\ [][BarNext]_vars

\* get_time_series_data: rows created on the 9th (at two hours) or the 10th,
\* mitigated and resolved on a later day or not at all.
MaxSeriesStore == 2

SeriesRows ==
    RowsOver({Day(9, 0), Day(9, 12), Day(10, 0)}, {Some("Data")}, {Some("High")},
             {"Open"}, {None, Some(Day(10, 0)), Some(Day(11, 0))},
             {None, Some(Day(10, 12)), Some(Day(11, 12))}, {None})

SeriesFilters ==
    FiltersOver({None, Some(Day(9, 12))}, {None}, {None}, {None}, {None})

SeriesNext ==
    \/ InsertTicket(SeriesRows, MaxSeriesStore)
    \/ CallGetTimeSeriesData(SeriesFilters)
    \/ Return

SeriesSpec == Init /\ [][SeriesNext]_vars

\* get_team_ticket_counts: rows of three teams or none, of two statuses so
\* that a status filter drops some.
MaxTeamStore == 3

TeamRows ==
    RowsOver({Day(9, 12)}, {None, Some("API"), Some("Data"), Some("Platform")},
             {Some("High")}, {"Open", "Resolved"}, {None}, {None}, {None})

TeamFilters ==
    FiltersOver({None}, {None}, {None}, {None}, {None, Some(<<"Open">>)})

TeamNext ==
    \/ InsertTicket(TeamRows, MaxTeamStore)
    \/ CallGetTeamTicketCounts(TeamFilters)
    \/ Return

TeamSpec == Init /\ [][TeamNext]_vars

\* get_team_ticket_counts past its cut: the table starts with one resolved
\* ticket of each of nine teams, and further tickets of one of those teams,
\* of three more teams or of no team are inserted, open or resolved.
MaxTopStore == 12

TopSeededTeams == <<"T01", "T02", "T03", "T04", "T05", "T06", "T07", "T08", "T09">>

TopSeededStore ==
    [i \in 1..Len(TopSeededTeams) |->
        WithId(TicketRow(Day(9, 12), Some(TopSeededTeams[i]), Some("High"), "Resolved",
                         None, None, None), i)]

TopRows ==
    RowsOver({Day(9, 12)}, {None, Some("T01"), Some("T10"), Some("T11"), Some("T12")},
             {Some("High")}, {"Open", "Resolved"}, {None}, {None}, {None})

TopFilters ==
    FiltersOver({None}, {None}, {None}, {None}, {None, Some(<<"Open">>)})

TopInit ==
    /\ tickets = TopSeededStore
    /\ flags = <<>>
    /\ filters = NoFilter
    /\ args = NoArgs
    /\ op = "idle"
    /\ result = <<>>
    /\ sessions = [s \in SessionIds |-> NoCall]
    /\ AppInit

TopNext ==
    \/ InsertTicket(TopRows, MaxTopStore)
    \/ CallGetTeamTicketCounts(TopFilters)
    \/ Return

TopSpec == TopInit /\ [][TopNext]_vars

\* FlagService writes: two users flag and unflag the two tickets of the table,
\* with or without notes, at one of two times.
MaxFlags == 3

MaxFlagId == 3

FlagUsers == {1, 2}

FlagNotes == {None, Some("follow up")}

FlagTimes == {Day(12, 0), Day(12, 1)}

FlagIdLists == {<<>>, <<1>>, <<1, 1>>, <<1, 2>>, <<2, 3>>, <<2, 1, 2>>}

FlagSeededStore ==
    <<WithId(TicketRow(Day(9, 12), Some("Data"), Some("High"), "Open", None, None, None), 1),
      WithId(TicketRow(Day(10, 12), None, Some("Low"), "Open", None, None, None), 2)>>

FlagInit ==
    /\ tickets = FlagSeededStore
    /\ flags = <<>>
    /\ filters = NoFilter
    /\ args = NoArgs
    /\ op = "idle"
    /\ result = <<>>
    /\ sessions = [s \in SessionIds |-> NoCall]
    /\ AppInit

FlagNext ==
    \/ CallFlagTicket(FlagUsers, FlagNotes, FlagTimes, MaxFlags, MaxFlagId)
    \/ CallUnflagTicket(FlagUsers)
    \/ CallBulkUnflagTickets(FlagUsers, FlagIdLists)
    \/ CallIsTicketFlagged(FlagUsers)
    \/ Return

FlagSpec == FlagInit /\ [][FlagNext]_vars

\* The one time of the calls whose time is of no interest.
RaceTimes == {Day(12, 0)}

\* Reads of the flags: two users flag and unflag three tickets, created on
\* two days, one of them without a team and one without a severity, and list
\* or export their flagged tickets under filters of every kind.
MaxListFlags == 3

ListSeededStore ==
    <<WithExportFields(
        WithId(TicketRow(Day(9, 12), Some("Data"), Some("High"), "Open", None, None, None), 1),
        "ES-1000", "Sample ticket 1: API timeout", Day(9, 13), Some("user1@company.com")),
      WithExportFields(
        WithId(TicketRow(Day(9, 12), None, Some("Low"), "Open", None, None, None), 2),
        "ES-1001", "Sample ticket 2: Memory leak", Day(10, 1), None),
      WithExportFields(
        WithId(TicketRow(Day(10, 12), Some("Data"), None, "Resolved",
                         None, Some(Day(11, 0)), Some(1150)), 3),
        "ES-1002", "Sample ticket 3: Security issue", Day(11, 0), Some("user2@company.com"))>>

ListFilters ==
    {NoFilter,
     [NoFilter EXCEPT !.date_start = Some(Day(10, 0))],
     [NoFilter EXCEPT !.date_end = Some(Day(9, 12))],
     [NoFilter EXCEPT !.teams = Some(<<"Data">>)],
     [NoFilter EXCEPT !.severities = Some(<<"High">>)],
     [NoFilter EXCEPT !.statuses = Some(<<"Open">>)],
     [NoFilter EXCEPT !.teams = Some(<<>>), !.statuses = Some(<<"Resolved">>)],
     [NoFilter EXCEPT !.date_end = Some(Day(9, 12)), !.teams = Some(<<"Data">>)]}

ListIdLists == {<<1, 2>>, <<3, 3, 4>>}

ListInit ==
    /\ tickets = ListSeededStore
    /\ flags = <<>>
    /\ filters = NoFilter
    /\ args = NoArgs
    /\ op = "idle"
    /\ result = <<>>
    /\ sessions = [s \in SessionIds |-> NoCall]
    /\ AppInit

ListNext ==
    \/ CallFlagTicket(FlagUsers, {None}, RaceTimes, MaxListFlags, MaxListFlags)
    \/ CallUnflagTicket(FlagUsers)
    \/ CallBulkUnflagTickets(FlagUsers, ListIdLists)
    \/ CallIsTicketFlagged(FlagUsers)
    \/ CallGetFlaggedTickets(FlagUsers, ListFilters)
    \/ CallExportFlaggedTicketsCsv(FlagUsers, ListFilters)
    \/ Return

ListSpec == ListInit /\ [][ListNext]_vars

\* flag_ticket calls that run at the same time, each in its own session.
MaxRaceFlags == 2

RaceNext ==
    \E s \in SessionIds :
        \/ FlagTicketSelect(s, FlagUsers, FlagNotes, MaxRaceFlags)
        \/ FlagTicketCommit(s, RaceTimes)
        \/ FlagTicketReturn(s)

RaceSpec == FlagInit /\ [][RaceNext]_vars

(***************************************************************************)
(* DashboardService calls, on a seeded tickets table.                      *)
(***************************************************************************)
\* The arguments of a DashboardService mutation and the clock value it read.
DashArgs(ticket_id, status, update_data, assignee_id, utcnow) ==
    [ticket_id |-> ticket_id, status |-> status, update_data |-> update_data,
     assignee_id |-> assignee_id, utcnow |-> utcnow]

NoUpdate == [title |-> None]

CallUpdateTicketStatus(Ids, Times) ==
    /\ op = "idle"
    /\ \E id \in Ids, status \in TicketStatusValues, now \in Times :
        LET r == update_ticket_status(dash_tickets, id, status, now)
        IN  /\ dash_tickets' = r.tickets
            /\ op' = "update_ticket_status"
            /\ args' = DashArgs(id, status, NoUpdate, None, now)
            /\ result' = r.ret
    /\ UNCHANGED <<tickets, flags, filters, sessions, users, filter_state, refresh, seed_batches>>

CallUpdateTicket(Ids, Updates, Times) ==
    /\ op = "idle"
    /\ \E id \in Ids, update_data \in Updates, now \in Times :
        LET r == update_ticket(dash_tickets, id, update_data, now)
        IN  /\ dash_tickets' = r.tickets
            /\ op' = "update_ticket"
            /\ args' = DashArgs(id, "", update_data, None, now)
            /\ result' = r.ret
    /\ UNCHANGED <<tickets, flags, filters, sessions, users, filter_state, refresh, seed_batches>>

CallDeleteTicket(Ids) ==
    /\ op = "idle"
    /\ \E id \in Ids :
        LET r == delete_ticket(dash_tickets, id)
        IN  /\ dash_tickets' = r.tickets
            /\ op' = "delete_ticket"
            /\ args' = DashArgs(id, "", NoUpdate, None, <<>>)
            /\ result' = r.ret
    /\ UNCHANGED <<tickets, flags, filters, sessions, users, filter_state, refresh, seed_batches>>

CallAssignTicket(Ids, Assignees, Times) ==
    /\ op = "idle"
    /\ \E id \in Ids, assignee_id \in Assignees, now \in Times :
        LET r == assign_ticket(dash_tickets, users, id, assignee_id, now)
        IN  /\ dash_tickets' = r.tickets
            /\ op' = "assign_ticket"
            /\ args' = DashArgs(id, "", NoUpdate, assignee_id, now)
            /\ result' = r.ret
    /\ UNCHANGED <<tickets, flags, filters, sessions, users, filter_state, refresh, seed_batches>>

\* The seeded table (seed_data.py): tickets in RESOLVED or CLOSED carry a
\* resolved_at, tickets in OPEN or IN_PROGRESS carry none.
MaxDashTickets == 2

DashSeededRows ==
    <<DashTicket(1, "Login fails", "OPEN", None, Day(10, 9), None),
      DashTicket(2, "Slow export", "RESOLVED", Some(1), Day(10, 9), Some(Day(10, 9))),
      DashTicket(3, "Typo", "IN_PROGRESS", Some(1), Day(10, 9), None)>>

DashSeededStore == SubSeq(DashSeededRows, 1, Min2(MaxDashTickets, Len(DashSeededRows)))

DashStoredUsers == {1}

\* Ticket ids: stored ones and 999, which is never stored.
DashIds == {1, 2, 3, 999}

DashUpdates == {NoUpdate, [title |-> Some("New title")]}

\* Assignee ids: none, a stored user and 999, which is no user.
DashAssignees == {None, Some(1), Some(999)}

DashTimes == {Day(11, 9)}

DashInit ==
    /\ tickets = <<>>
    /\ flags = <<>>
    /\ filters = NoFilter
    /\ args = NoArgs
    /\ op = "idle"
    /\ result = <<>>
    /\ sessions = [s \in SessionIds |-> NoCall]
    /\ dash_tickets = DashSeededStore
    /\ users = DashStoredUsers
    /\ filter_state = NewFilterState
    /\ refresh = NoRefresh
    /\ seed_batches = <<>>

DashNext ==
    \/ CallUpdateTicketStatus(DashIds, DashTimes)
    \/ CallUpdateTicket(DashIds, DashUpdates, DashTimes)
    \/ CallDeleteTicket(DashIds)
    \/ CallAssignTicket(DashIds, DashAssignees, DashTimes)
    \/ Return

DashSpec == DashInit /\ [][DashNext]_vars

(***************************************************************************)
(* The filter bar: FilterState changed by the date pickers, the selects,   *)
(* the Reset button and the URL parameters, and read by the tickets tab.   *)
(* No container is set, so the refresh that notify_change starts does      *)
(* nothing.                                                                *)
(***************************************************************************)
\* update_start_date / update_end_date: a cleared picker, or a string that
\* does not parse, sets the date to None.
DateFromPicker(value) ==
    IF ~IsNone(value) /\ Len(Val(value)) > 0 THEN ParseIsoDate(Val(value)) ELSE None

UpdateStartDate(Values) ==
    /\ op = "idle"
    /\ \E value \in Values : filter_state' = [filter_state EXCEPT !.date_start = DateFromPicker(value)]
    /\ UNCHANGED <<tickets, flags, filters, args, op, result, sessions,
                   dash_tickets, users, refresh, seed_batches>>

UpdateEndDate(Values) ==
    /\ op = "idle"
    /\ \E value \in Values : filter_state' = [filter_state EXCEPT !.date_end = DateFromPicker(value)]
    /\ UNCHANGED <<tickets, flags, filters, args, op, result, sessions,
                   dash_tickets, users, refresh, seed_batches>>

\* update_teams: `value.value or []`.
UpdateTeams(Lists) ==
    /\ op = "idle"
    /\ \E value \in Lists : filter_state' = [filter_state EXCEPT !.teams = value]
    /\ UNCHANGED <<tickets, flags, filters, args, op, result, sessions,
                   dash_tickets, users, refresh, seed_batches>>

ResetFilters ==
    /\ op = "idle"
    /\ filter_state' = NewFilterState
    /\ UNCHANGED <<tickets, flags, filters, args, op, result, sessions,
                   dash_tickets, users, refresh, seed_batches>>

\* The arguments of from_url_params and the FilterState it was called on.
UrlArgs(params, before) == [params |-> params, before |-> before]

CallFromUrlParams(Params) ==
    /\ op = "idle"
    /\ \E params \in Params :
        /\ filter_state' = from_url_params(filter_state, params)
        /\ op' = "from_url_params"
        /\ args' = UrlArgs(params, filter_state)
        /\ result' = None
    /\ UNCHANGED <<tickets, flags, filters, sessions, dash_tickets, users, refresh, seed_batches>>

CallToUrlParams ==
    /\ op = "idle"
    /\ op' = "to_url_params"
    /\ result' = to_url_params(filter_state)
    /\ UNCHANGED <<tickets, flags, filters, args, sessions, appVars>>

\* refresh_tickets_tab: get_filtered_tickets(self.filter_state.to_filter_params()).
CallGetFilteredTicketsOfState == CallGetFilteredTickets({to_filter_params(filter_state)})

\* Strings: "A", "B" and the team name "R,D"; 44 is ",".
StrA == <<65>>

StrB == <<66>>

StrRD == <<82, 44, 68>>

StrOpen == <<79>>

StrHigh == <<72>>

\* The day the date filters are set to, and the days around it.
DayD == <<2024, 2, 29>>

\* "2024-02-29", "2024-02-29T08:30:00", and strings that are no ISO date:
\* "2024-13-01", "2024-02-30", "soon".
StateDateStrings ==
    {IsoFormat(DayD),
     IsoFormat(DayD) \o <<84>> \o Pad2(8) \o <<58>> \o Pad2(30) \o <<58>> \o Pad2(0),
     IsoFormat(<<2024, 13, 1>>), IsoFormat(<<2024, 2, 30>>), <<115, 111, 111, 110>>}

StatePickerValues == {None, Some(<<>>), Some(IsoFormat(DayD)), Some(<<115, 111, 111, 110>>)}

StateTeamLists == {<<>>, <<StrA>>, <<StrA, StrB>>, <<StrRD>>}

\* URL parameters: each key missing, empty or set.
StateParams ==
    [date_start : {None} \cup {Some(x) : x \in StateDateStrings},
     date_end : {None, Some(IsoFormat(DayD)), Some(IsoFormat(<<2024, 2, 30>>))},
     teams : {None, Some(<<>>), Some(StrA \o <<44>> \o StrB)},
     severities : {None, Some(StrHigh)},
     statuses : {None, Some(StrOpen)}]

\* Tickets created through day D, the day before and the day after.
StateTicket(created, team) ==
    TicketRow(created, Some(team), Some(StrHigh), StrOpen, None, None, None)

MaxStateStore == 5

StateSeededRows ==
    <<StateTicket(Combine(DayD, MinTime), StrA),
      StateTicket(Combine(DayD, MaxTime), StrB),
      StateTicket(Combine(NextDay(DayD), MinTime), StrA),
      StateTicket(Combine(PrevDay(DayD), MaxTime), StrA),
      StateTicket(Combine(DayD, <<12, 30, 0, 0>>), StrRD),
      StateTicket(Combine(NextDay(DayD), <<12, 30, 0, 0>>), StrB)>>

StateSeededStore ==
    [i \in 1..Min2(MaxStateStore, Len(StateSeededRows)) |-> WithId(StateSeededRows[i], i)]

StateInit ==
    /\ tickets = StateSeededStore
    /\ flags = <<>>
    /\ filters = NoFilter
    /\ args = NoArgs
    /\ op = "idle"
    /\ result = <<>>
    /\ sessions = [s \in SessionIds |-> NoCall]
    /\ AppInit

StateNext ==
    \/ UpdateStartDate(StatePickerValues)
    \/ UpdateEndDate(StatePickerValues)
    \/ UpdateTeams(StateTeamLists)
    \/ ResetFilters
    \/ CallFromUrlParams(StateParams)
    \/ CallToUrlParams
    \/ CallGetFilteredTicketsOfState
    \/ Return

StateSpec == StateInit /\ [][StateNext]_vars

(***************************************************************************)
(* The dashboard page: refresh_dashboard run query by query, next to a     *)
(* writer that inserts tickets into the same store.                        *)
(***************************************************************************)
RefreshUnchanged ==
    UNCHANGED <<tickets, flags, filters, args, op, result, sessions,
                dash_tickets, users, filter_state, seed_batches>>

\* dashboard_page sets the next container; no refresh has run yet.
SetContainer ==
    /\ refresh.pc = "idle"
    /\ Cardinality(refresh.containers) < Len(ContainerOrder)
    /\ refresh' = [refresh EXCEPT
                    !.containers = @ \cup {ContainerOrder[Cardinality(@) + 1]}]
    /\ RefreshUnchanged

\* refresh_dashboard is called: by dashboard_page or by notify_change.
StartRefresh ==
    /\ refresh.pc \in {"idle", "done"}
    /\ refresh' = [refresh EXCEPT !.pc = "kpis", !.steps = <<>>, !.raised = FALSE]
    /\ RefreshUnchanged

RefreshKpis ==
    /\ refresh.pc = "kpis"
    /\ \E fails \in BOOLEAN :
        refresh' = IF "kpi" \in refresh.containers
                   THEN refresh_kpis(refresh, tickets, to_filter_params(filter_state), fails)
                   ELSE [refresh EXCEPT !.pc = "series"]
    /\ RefreshUnchanged

RefreshChartsSeries ==
    /\ refresh.pc = "series"
    /\ \E fails \in BOOLEAN :
        refresh' = IF "charts" \in refresh.containers
                   THEN refresh_charts_series(refresh, tickets, to_filter_params(filter_state), fails)
                   ELSE [refresh EXCEPT !.pc = "tickets"]
    /\ RefreshUnchanged

RefreshChartsBar ==
    /\ refresh.pc = "bar"
    /\ \E fails \in BOOLEAN :
        refresh' = refresh_charts_bar(refresh, tickets, to_filter_params(filter_state), fails)
    /\ RefreshUnchanged

RefreshChartsTeam ==
    /\ refresh.pc = "team"
    /\ \E fails \in BOOLEAN :
        refresh' = refresh_charts_team(refresh, tickets, to_filter_params(filter_state), fails)
    /\ RefreshUnchanged

RefreshTicketsTab ==
    /\ refresh.pc = "tickets"
    /\ \E fails \in BOOLEAN :
        refresh' = IF "tickets" \in refresh.containers
                   THEN refresh_tickets_tab(refresh, tickets, to_filter_params(filter_state), fails)
                   ELSE [refresh EXCEPT !.pc = "flagged"]
    /\ RefreshUnchanged

RefreshFlaggedTab ==
    /\ refresh.pc = "flagged"
    /\ \E fails \in BOOLEAN :
        refresh' = IF "flagged" \in refresh.containers
                   THEN refresh_flagged_tab(refresh, tickets, flags,
                                            to_filter_params(filter_state), fails)
                   ELSE [refresh EXCEPT !.pc = "url_params"]
    /\ RefreshUnchanged

\* update_url_params: to_url_params() and nothing else; the pass is over.
UpdateUrlParams ==
    /\ refresh.pc = "url_params"
    /\ refresh' = [refresh EXCEPT !.pc = "done"]
    /\ RefreshUnchanged

\* Rows the writer inserts: inside and outside the default 30 days.
MaxRefreshStore == 2

RefreshRows ==
    {TicketRow(Combine(DayD, <<12, 30, 0, 0>>), Some("Data"), Some("High"), "Open",
               None, None, None),
     TicketRow(Combine(<<2024, 2, 10>>, MinTime), Some("Core"), None, "Resolved",
               None, Some(Combine(DayD, MinTime)), Some(100)),
     TicketRow(Combine(<<2024, 1, 10>>, MinTime), Some("Data"), Some("High"), "Open",
               None, None, None)}

RefreshNext ==
    \/ InsertTicket(RefreshRows, MaxRefreshStore)
    \/ SetContainer
    \/ StartRefresh
    \/ RefreshKpis
    \/ RefreshChartsSeries
    \/ RefreshChartsBar
    \/ RefreshChartsTeam
    \/ RefreshTicketsTab
    \/ RefreshFlaggedTab
    \/ UpdateUrlParams

RefreshSpec == Init /\ [][RefreshNext]_vars

(***************************************************************************)
(* SeedService.create_sample_tickets.                                      *)
(*   The rows one call commits carry the keys ES-n for n from start_num to *)
(*   start_num + count - 1; seed_batches holds one [start_num, count] per  *)
(*   committed call and stands for those rows.                             *)
(***************************************************************************)
RECURSIVE Digits(_)
\* str(n) for n >= 0.
Digits(n) == IF n < 10 THEN <<48 + n>> ELSE Digits(n \div 10) \o <<48 + (n % 10)>>

\* f"ES-{n}": 69 is "E", 83 is "S", 45 is "-".
KeyOf(n) == <<69, 83, 45>> \o Digits(n)

RECURSIVE Pow10(_)
Pow10(k) == IF k = 0 THEN 1 ELSE 10 * Pow10(k - 1)

Max2(a, b) == IF a >= b THEN a ELSE b

\* The first and the last key number of a batch.
FirstNum(b) == b.start_num

LastNum(b) == b.start_num + b.count - 1

\* Key numbers are written with at most this many digits.
MaxKeyDigits == 6

\* The greatest key number of each length among the stored rows. Keys of the
\* same length are ordered as their numbers, so the greatest key string is
\* the key of one of these.
LongestPerLength(batches) ==
    {Min2(LastNum(batches[i]), Pow10(len) - 1) :
        <<i, len>> \in {<<j, l>> \in (1..Len(batches)) \X (1..MaxKeyDigits) :
                /\ batches[j].count > 0
                /\ Min2(LastNum(batches[j]), Pow10(l) - 1)
                    >= Max2(FirstNum(batches[j]), Pow10(l - 1))}}

\* select(func.max(ESTicket.key)): the greatest key as a string, None on an
\* empty table.
MaxKey(batches) ==
    LET nums == LongestPerLength(batches)
    IN  IF nums = {} THEN None
        ELSE Some(KeyOf(CHOOSE n \in nums : \A m \in nums : SeqLeq(KeyOf(m), KeyOf(n))))

\* int(existing_max.split("-")[1]): the digits after the first "-".
KeyNumber(key) ==
    LET parts == SplitOn(key, 45)
    IN  DigitsValue(parts[2], 1, Len(parts[2]))

\* start_num: 1000 on an empty table, else the number of the greatest key + 1.
FirstSampleNumber == 1000

StartNum(batches) ==
    IF IsNone(MaxKey(batches)) THEN FirstSampleNumber
    ELSE KeyNumber(Val(MaxKey(batches))) + 1

\* A key of the new rows is the key of a stored row (ESTicket.key is unique).
KeyTaken(batches, start_num, count) ==
    \E i \in 1..Len(batches) :
        /\ batches[i].count > 0 /\ count > 0
        /\ start_num <= LastNum(batches[i])
        /\ FirstNum(batches[i]) <= start_num + count - 1

\* The rows are added to the session and committed together; a key that is
\* taken fails the commit with IntegrityError and no row is stored.
create_sample_tickets(batches, count) ==
    LET start_num == StartNum(batches)
    IN  IF KeyTaken(batches, start_num, count)
        THEN [batches |-> batches, start_num |-> start_num, ret |-> "IntegrityError"]
        ELSE [batches |-> IF count > 0
                          THEN Append(batches, [start_num |-> start_num, count |-> count])
                          ELSE batches,
              start_num |-> start_num, ret |-> "None"]

CallCreateSampleTickets(Counts, maxRows) ==
    /\ op = "idle"
    /\ \E count \in Counts :
        LET r == create_sample_tickets(seed_batches, count)
        IN  /\ Len(r.batches) <= maxRows
            /\ seed_batches' = r.batches
            /\ op' = "create_sample_tickets"
            /\ args' = [count |-> count, start_num |-> r.start_num]
            /\ result' = r.ret
    /\ UNCHANGED <<tickets, flags, filters, sessions, dash_tickets, users, filter_state, refresh>>

\* The number of calls that commit rows.
MaxSeedBatches == 3

\* Requested counts: the default 50, the 100 of the /seed page, and counts
\* that take the key numbers up to and past ES-9999.
SeedCounts == {1, 50, 100, 8900, 9000}

SeedNext ==
    \/ CallCreateSampleTickets(SeedCounts, MaxSeedBatches)
    \/ Return

SeedSpec == Init /\ [][SeedNext]_vars

\* get_kpi_data next to get_time_series_data: rows with and without a
\* mitigation, resolved on two dates or not at all, and a date_end that
\* drops the rows created later.
MaxResolvedStore == 3

ResolvedRows ==
    {TicketRow(c, Some("Data"), Some("High"), "Open", m, r[1], r[2]) :
        c \in {Day(9, 12), Day(10, 12)},
        m \in {None, Some(Day(11, 0))},
        r \in {<<None, None>>, <<Some(Day(11, 0)), Some(100)>>,
               <<Some(Day(12, 0)), Some(200)>>}}

ResolvedFilters ==
    FiltersOver({None}, {None, Some(Day(9, 12))}, {None}, {None}, {None})

ResolvedNext ==
    \/ InsertTicket(ResolvedRows, MaxResolvedStore)
    \/ CallGetKpiData(ResolvedFilters)
    \/ CallGetTimeSeriesData(ResolvedFilters)
    \/ Return

ResolvedSpec == Init /\ [][ResolvedNext]_vars

(***************************************************************************)
(* Claims about get_filtered_tickets.                                      *)
(***************************************************************************)
StoredTickets == SeqToSet(tickets)

\* The values an Optional[List[str]] filter field lists (none when unset).
Listed(o) == IF IsNone(o) THEN {} ELSE SeqToSet(Val(o))

\* The matching rule of the specification for one optional string column.
InListed(column, o) == Listed(o) = {} \/ (~IsNone(column) /\ Val(column) \in Listed(o))

\* The matching rule of the specification (4.1).
Matches(t, f) ==
    /\ IsNone(f.date_start) \/ SeqLeq(Val(f.date_start), t.created)
    /\ IsNone(f.date_end) \/ SeqLeq(t.created, Val(f.date_end))
    /\ InListed(t.eng_team, f.teams)
    /\ InListed(t.severity, f.severities)
    /\ InListed(Some(t.status), f.statuses)

\* C1: get_filtered_tickets returns exactly the stored tickets that satisfy
\* every set condition, each once; an unset or empty list restricts nothing,
\* a ticket with a null team or severity is never returned under a non-empty
\* teams or severities list, and date_start > date_end gives an empty list.
C1_FilteredExactlyMatching ==
    op = "get_filtered_tickets" =>
        /\ SeqToSet(result) = {t \in StoredTickets : Matches(t, filters)}
        /\ Cardinality(SeqToSet(result)) = Len(result)
        /\ Listed(filters.teams) /= {} =>
                \A i \in 1..Len(result) : ~IsNone(result[i].eng_team)
        /\ Listed(filters.severities) /= {} =>
                \A i \in 1..Len(result) : ~IsNone(result[i].severity)
        /\ (Listed(filters.teams) = {} /\ Listed(filters.severities) = {}
            /\ Listed(filters.statuses) = {}
            /\ IsNone(filters.date_start) /\ IsNone(filters.date_end)) =>
                result = tickets
        /\ (~IsNone(filters.date_start) /\ ~IsNone(filters.date_end)
            /\ SeqLess(Val(filters.date_end), Val(filters.date_start))) =>
                result = <<>>

\* A call with a date bound and a non-empty team list that kept one stored
\* ticket and dropped another one whose team is null.
C1_Witness ==
    /\ op = "get_filtered_tickets"
    /\ ~IsNone(filters.date_start)
    /\ Listed(filters.teams) /= {}
    /\ result /= <<>>
    /\ \E t \in StoredTickets :
        /\ IsNone(t.eng_team)
        /\ SeqLeq(Val(filters.date_start), t.created)
        /\ t \notin SeqToSet(result)

\* What the same call returns with only the teams field changed to tm.
WithTeams(tm) == get_filtered_tickets(tickets, [filters EXCEPT !.teams = tm])

\* C2 as stated: whenever the teams of the call are a subset of another team
\* list, the empty and the unset list included, every ticket the call
\* returned is returned under the other list too.
C2_SupersetKeepsTickets ==
    op = "get_filtered_tickets" =>
        \A tm \in FilterTeamChoices :
            Listed(filters.teams) \subseteq Listed(tm) =>
                SeqToSet(result) \subseteq SeqToSet(WithTeams(tm))

\* C2 amended: the same for a call whose team list is not empty.
C2_NonEmptySupersetKeepsTickets ==
    (op = "get_filtered_tickets" /\ Listed(filters.teams) /= {}) =>
        \A tm \in FilterTeamChoices :
            Listed(filters.teams) \subseteq Listed(tm) =>
                SeqToSet(result) \subseteq SeqToSet(WithTeams(tm))

\* A call with a non-empty team list that returned a ticket, where a strict
\* superset of the list returns a further ticket.
C2_Witness ==
    /\ op = "get_filtered_tickets"
    /\ Listed(filters.teams) /= {}
    /\ result /= <<>>
    /\ \E tm \in FilterTeamChoices :
        /\ Listed(filters.teams) \subseteq Listed(tm)
        /\ Listed(filters.teams) /= Listed(tm)
        /\ SeqToSet(WithTeams(tm)) /= SeqToSet(result)

(***************************************************************************)
(* Claims about get_kpi_data.                                              *)
(***************************************************************************)
\* The stored tickets the filter of the held call matches (4.1).
MatchingTickets == {t \in StoredTickets : Matches(t, filters)}

\* Those of them that carry a resolve duration.
TimedTickets == {t \in MatchingTickets : ~IsNone(t.time_to_resolve_hours)}

RECURSIVE TotalHours(_)
\* The sum of the resolve durations of a set of tickets.
TotalHours(S) ==
    IF S = {} THEN 0
    ELSE LET t == CHOOSE x \in S : TRUE
         IN  Val(t.time_to_resolve_hours) + TotalHours(S \ {t})

\* C3: tickets_created is the number of filtered tickets, tickets_mitigated
\* the number of them with a mitigated_date (inside the date window or not),
\* open_tickets the number of them without a resolved_date.
C3_KpiCounts ==
    op = "get_kpi_data" =>
        /\ result.tickets_created = Cardinality(MatchingTickets)
        /\ result.tickets_created = Len(get_filtered_tickets(tickets, filters))
        /\ result.tickets_mitigated =
                Cardinality({t \in MatchingTickets : ~IsNone(t.mitigated_date)})
        /\ result.open_tickets =
                Cardinality({t \in MatchingTickets : IsNone(t.resolved_date)})

\* A call with a date window that counted a ticket mitigated after the window
\* closed, an open ticket and a resolved one.
C3_Witness ==
    /\ op = "get_kpi_data"
    /\ ~IsNone(filters.date_end)
    /\ result.tickets_created < Len(tickets)
    /\ result.open_tickets > 0
    /\ result.open_tickets < result.tickets_created
    /\ \E t \in MatchingTickets :
        /\ ~IsNone(t.mitigated_date)
        /\ SeqLess(Val(filters.date_end), Val(t.mitigated_date))

\* C4 as stated: the average is None exactly when no filtered ticket has a
\* resolve duration, and otherwise it is the mean of the durations of the
\* filtered tickets that have one.
C4_AverageIsMean ==
    op = "get_kpi_data" =>
        /\ IsNone(result.avg_time_to_resolve_hours) <=> TimedTickets = {}
        /\ TimedTickets /= {} =>
                Val(result.avg_time_to_resolve_hours) * Cardinality(TimedTickets)
                    = TotalHours(TimedTickets)

\* C4 amended: otherwise it is that mean rounded to two decimal places, that
\* is a whole number of hundredths at most half a hundredth from the mean.
C4_AverageIsRoundedMean ==
    op = "get_kpi_data" =>
        /\ IsNone(result.avg_time_to_resolve_hours) <=> TimedTickets = {}
        /\ TimedTickets /= {} =>
                LET n == Cardinality(TimedTickets)
                    d == Val(result.avg_time_to_resolve_hours) * n - TotalHours(TimedTickets)
                IN  2 * d <= n /\ -2 * d <= n

\* A call whose filter drops a ticket with a duration and keeps tickets whose
\* mean duration is no whole number of hundredths.
C4_Witness ==
    /\ op = "get_kpi_data"
    /\ \E t \in StoredTickets \ MatchingTickets : ~IsNone(t.time_to_resolve_hours)
    /\ TimedTickets /= {}
    /\ TotalHours(TimedTickets) % Cardinality(TimedTickets) /= 0
    /\ ~IsNone(result.avg_time_to_resolve_hours)

\* C5: the three counts are never negative and tickets_created is at least
\* tickets_mitigated.
C5_KpiCountsOrdered ==
    op = "get_kpi_data" =>
        /\ result.tickets_created >= 0
        /\ result.open_tickets >= 0
        /\ result.tickets_mitigated >= 0
        /\ result.tickets_created >= result.tickets_mitigated

\* A call whose filter dropped a mitigated ticket and kept a mitigated and an
\* unmitigated one.
C5_Witness ==
    /\ op = "get_kpi_data"
    /\ \E t \in StoredTickets \ MatchingTickets : ~IsNone(t.mitigated_date)
    /\ result.tickets_mitigated > 0
    /\ result.tickets_created > result.tickets_mitigated

(***************************************************************************)
(* Claims about get_stacked_bar_data.                                      *)
(***************************************************************************)
RECURSIVE SumCounts(_)
\* The sum of the counts of a severity_counts dict.
SumCounts(d) == IF d = <<>> THEN 0 ELSE Head(d)[2] + SumCounts(Tail(d))

RECURSIVE SumEntries(_)
\* The sum of all counts of all entries of a get_stacked_bar_data result.
SumEntries(r) ==
    IF r = <<>> THEN 0 ELSE SumCounts(Head(r).severity_counts) + SumEntries(Tail(r))

\* The severity label the specification counts a ticket under.
SeverityLabel(t) == IF IsNone(t.severity) THEN "Unknown" ELSE Val(t.severity)

\* C6: the counts of all entries add up to the number of filtered tickets,
\* there is exactly one entry per status among the filtered tickets, and each
\* count is the number of filtered tickets of that status and severity label,
\* a null severity counting under "Unknown".
C6_CrossTabTotals ==
    op = "get_stacked_bar_data" =>
        /\ SumEntries(result) = Len(get_filtered_tickets(tickets, filters))
        /\ SumEntries(result) = Cardinality(MatchingTickets)
        /\ {result[i].status : i \in 1..Len(result)} = {t.status : t \in MatchingTickets}
        /\ \A i, j \in 1..Len(result) : result[i].status = result[j].status => i = j
        /\ \A i \in 1..Len(result) :
            LET counts == result[i].severity_counts
            IN  /\ \A k, l \in 1..Len(counts) : counts[k][1] = counts[l][1] => k = l
                /\ \A k \in 1..Len(counts) :
                        counts[k][2] = Cardinality({t \in MatchingTickets :
                                            /\ t.status = result[i].status
                                            /\ SeverityLabel(t) = counts[k][1]})
        /\ \A t \in MatchingTickets :
            \E i \in 1..Len(result) :
                /\ result[i].status = t.status
                /\ DictHas(result[i].severity_counts, SeverityLabel(t))

\* A call whose filter dropped a ticket and that returned two status entries,
\* one of them counting a ticket without a severity.
C6_Witness ==
    /\ op = "get_stacked_bar_data"
    /\ MatchingTickets /= StoredTickets
    /\ Len(result) = 2
    /\ \E i \in 1..Len(result) : DictHas(result[i].severity_counts, "Unknown")

\* The stores that hold the rows of the table in another order.
Reorderings ==
    LET n == Len(tickets)
    IN  {[i \in 1..n |-> tickets[p[i]]] :
            p \in {q \in [1..n -> 1..n] : \A a, b \in 1..n : q[a] = q[b] => a = b}}

\* The entries of a result, each severity_counts dict as Python compares
\* dicts: by its items, whatever their order.
Entries(r) == [i \in 1..Len(r) |-> <<r[i].status, SeqToSet(r[i].severity_counts)>>]

\* C7: the sequence of entries depends only on the set of filtered tickets: a
\* store returning the same rows in another order produces the same sequence.
C7_BarOrderIndependentOfStorage ==
    op = "get_stacked_bar_data" =>
        \A store \in Reorderings :
            Entries(get_stacked_bar_data(store, filters)) = Entries(result)

(***************************************************************************)
(* Claims about get_time_series_data.                                      *)
(***************************************************************************)
\* The calendar dates of the model's datetimes.
CalendarDates == {<<2024, 1, d>> : d \in 8..12}

\* The counter `field` of the point for date d, 0 when there is no point.
PointCount(d, field) ==
    LET at == {i \in 1..Len(result) : result[i].date = IsoFormat(d)}
    IN  IF at = {} THEN 0 ELSE result[CHOOSE i \in at : TRUE][field]

\* Whether an optional datetime is set and falls on date d.
FallsOn(o, d) == ~IsNone(o) /\ DateOf(Val(o)) = d

\* C8: for every calendar date d the point for d counts the filtered tickets
\* created on d, those mitigated on d and those resolved on d (each event in
\* the bucket of its own date); a date without a point has none of them.
C8_SeriesCountsPerDate ==
    op = "get_time_series_data" =>
        \A d \in CalendarDates :
            /\ PointCount(d, "created") =
                    Cardinality({t \in MatchingTickets : DateOf(t.created) = d})
            /\ PointCount(d, "mitigated") =
                    Cardinality({t \in MatchingTickets : FallsOn(t.mitigated_date, d)})
            /\ PointCount(d, "resolved") =
                    Cardinality({t \in MatchingTickets : FallsOn(t.resolved_date, d)})

\* A call that counted one ticket in three buckets: created, mitigated and
\* resolved on three different dates.
C8_Witness ==
    /\ op = "get_time_series_data"
    /\ Len(result) = 3
    /\ \E t \in MatchingTickets :
        /\ ~IsNone(t.mitigated_date)
        /\ ~IsNone(t.resolved_date)
        /\ DateOf(t.created) /= DateOf(Val(t.mitigated_date))
        /\ DateOf(Val(t.mitigated_date)) /= DateOf(Val(t.resolved_date))
        /\ DateOf(t.created) /= DateOf(Val(t.resolved_date))

\* The calendar date a point's date string stands for.
DateOfPoint(p) == CHOOSE d \in CalendarDates : IsoFormat(d) = p.date

\* C9: every point carries the date string of a calendar date, no two points
\* have the same date, the points are in strictly ascending order of date,
\* and every point counts at least one event.
C9_SeriesSortedNoEmptyBucket ==
    op = "get_time_series_data" =>
        /\ \A i \in 1..Len(result) : \E d \in CalendarDates : IsoFormat(d) = result[i].date
        /\ \A i, j \in 1..Len(result) :
                i < j => SeqLess(DateOfPoint(result[i]), DateOfPoint(result[j]))
        /\ \A i \in 1..Len(result) :
                result[i].created + result[i].mitigated + result[i].resolved >= 1

\* A call that returned points for the 9th, the 10th and the 11th, the last
\* of them without a created ticket.
C9_Witness ==
    /\ op = "get_time_series_data"
    /\ Len(result) = 3
    /\ result[1].date = IsoFormat(<<2024, 1, 9>>)
    /\ result[3].date = IsoFormat(<<2024, 1, 11>>)
    /\ result[3].created = 0

(***************************************************************************)
(* Claims about get_team_ticket_counts.                                    *)
(***************************************************************************)
\* The character codes of the team labels of the model.
Codes(name) ==
    CASE name = "API" -> <<65, 80, 73>>
      [] name = "Data" -> <<68, 97, 116, 97>>
      [] name = "Platform" -> <<80, 108, 97, 116, 102, 111, 114, 109>>
      [] name = "Unknown" -> <<85, 110, 107, 110, 111, 119, 110>>

\* C10: the list is sorted by ticket_count descending, and teams of equal
\* ticket_count are in ascending lexicographic order of team name.
C10_RankingSortedWithTieBreak ==
    op = "get_team_ticket_counts" =>
        \A i, j \in 1..Len(result) :
            i < j =>
                /\ result[i].ticket_count >= result[j].ticket_count
                /\ result[i].ticket_count = result[j].ticket_count =>
                        SeqLess(Codes(result[i].team), Codes(result[j].team))

\* The team label the specification groups a ticket under.
TeamLabel(t) == IF IsNone(t.eng_team) THEN "Unknown" ELSE Val(t.eng_team)

\* The team labels among the filtered tickets.
MatchingLabels == {TeamLabel(t) : t \in MatchingTickets}

\* The number of filtered tickets under a team label.
LabelCount(l) == Cardinality({t \in MatchingTickets : TeamLabel(t) = l})

\* C11: the list has min(10, number of distinct team labels among the
\* filtered tickets) entries, a null team counting as "Unknown"; every entry
\* names a different label and carries its count, which is above 0; no label
\* left out has a larger count than a listed one; and no filtered ticket
\* gives the empty list.
C11_TopTenTeams ==
    op = "get_team_ticket_counts" =>
        LET listed == {result[i].team : i \in 1..Len(result)}
        IN  /\ Len(result) = Min2(10, Cardinality(MatchingLabels))
            /\ Cardinality(listed) = Len(result)
            /\ listed \subseteq MatchingLabels
            /\ \A i \in 1..Len(result) :
                    /\ result[i].ticket_count > 0
                    /\ result[i].ticket_count = LabelCount(result[i].team)
            /\ \A l \in MatchingLabels \ listed :
                    \A i \in 1..Len(result) : LabelCount(l) <= result[i].ticket_count
            /\ MatchingTickets = {} => result = <<>>

\* A call over more than ten labels that returned ten entries, the first of
\* them a label of two tickets that the table holds after ten other labels.
C11_Witness ==
    /\ op = "get_team_ticket_counts"
    /\ Cardinality(MatchingLabels) > 10
    /\ Len(result) = 10
    /\ result[1].ticket_count = 2
    /\ result[1].team \in {"T11", "T12", "Unknown"}

\* A call whose filter matches no stored ticket.
C11_WitnessEmpty ==
    /\ op = "get_team_ticket_counts"
    /\ tickets /= <<>>
    /\ MatchingTickets = {}
    /\ result = <<>>

(***************************************************************************)
(* Claims about FlagService.                                               *)
(***************************************************************************)
\* The rows of a flag table for a (user, ticket) pair.
FlagsOf(table, user_id, ticket_id) ==
    {i \in 1..Len(table) : table[i].user_id = user_id /\ table[i].ticket_id = ticket_id}

\* C12: a flag_ticket call for a pair that already has a flag returns that
\* flag (same id, notes and flagged_at as stored before the call, whatever
\* notes the call brings) and leaves the flag table as it was.
C12_FlagTicketIdempotent ==
    [][(op' = "flag_ticket" /\ FlagsOf(flags, args'.user_id, args'.ticket_id) /= {}) =>
            /\ flags' = flags
            /\ Len(flags') = Len(flags)
            /\ \E i \in FlagsOf(flags, args'.user_id, args'.ticket_id) :
                    /\ result' = flags[i]
                    /\ result'.id = flags[i].id
                    /\ result'.notes = flags[i].notes
                    /\ result'.flagged_at = flags[i].flagged_at]_vars

\* A flag_ticket call that returned a flag with other notes and another time
\* than a new flag of this call could have: an existing flag, set without
\* notes at the first time, returned to a call that brings notes.
C12_Witness ==
    /\ op = "flag_ticket"
    /\ ~IsNone(args.notes)
    /\ IsNone(result.notes)
    /\ result.flagged_at = Day(12, 0)
    /\ Len(flags) = 2

\* C13: the flag table holds at most one row for every (user, ticket) pair,
\* whatever flag_ticket, unflag_ticket and bulk_unflag_tickets calls were
\* made one after another from the empty table.
C13_AtMostOneFlagPerPair ==
    \A i, j \in 1..Len(flags) :
        (flags[i].user_id = flags[j].user_id /\ flags[i].ticket_id = flags[j].ticket_id)
            => i = j

\* A flag_ticket call made after flags were set and removed again: it
\* returned the only row of the table, whose id is the third.
C13_Witness ==
    /\ op = "flag_ticket"
    /\ Len(flags) = 1
    /\ result = flags[1]
    /\ result.id = 3

\* C15: unflag_ticket returns True exactly when the pair had a flag before
\* the call; after the call the pair has none; when it had none the table is
\* unchanged; and the rows of other users and of other tickets are unchanged
\* in both cases.
C15_UnflagTicket ==
    [][op' = "unflag_ticket" =>
            LET u == args'.user_id
                t == args'.ticket_id
                Other(row) == row.user_id /= u \/ row.ticket_id /= t
            IN  /\ result' \in BOOLEAN
                /\ result' <=> FlagsOf(flags, u, t) /= {}
                /\ FlagsOf(flags', u, t) = {}
                /\ FlagsOf(flags, u, t) = {} => flags' = flags
                /\ SelectSeq(flags', Other) = SelectSeq(flags, Other)]_vars

\* An unflag_ticket call that returned True and left the flag of the other
\* user on the same ticket and the flag of the same user on the other ticket.
C15_Witness ==
    /\ op = "unflag_ticket"
    /\ result = TRUE
    /\ \E i \in 1..Len(flags) :
            flags[i].user_id /= args.user_id /\ flags[i].ticket_id = args.ticket_id
    /\ \E i \in 1..Len(flags) :
            flags[i].user_id = args.user_id /\ flags[i].ticket_id /= args.ticket_id

\* C16: bulk_unflag_tickets returns the number of distinct listed ids for
\* which the user had a flag before the call; after it the user has no flag
\* on a listed ticket, and every row that is not a flag of the user on a
\* listed ticket is unchanged.
C16_BulkUnflagTickets ==
    [][op' = "bulk_unflag_tickets" =>
            LET u == args'.user_id
                listed == SeqToSet(args'.ticket_ids)
                Other(row) == row.user_id /= u \/ row.ticket_id \notin listed
            IN  /\ result' = Cardinality({t \in listed : FlagsOf(flags, u, t) /= {}})
                /\ \A t \in listed : FlagsOf(flags', u, t) = {}
                /\ SelectSeq(flags', Other) = SelectSeq(flags, Other)]_vars

\* A bulk_unflag_tickets call over a list that repeats an id, which removed
\* the user's two flags and left the row of the other user.
C16_Witness ==
    /\ op = "bulk_unflag_tickets"
    /\ args.ticket_ids = <<2, 1, 2>>
    /\ result = 2
    /\ Len(flags) = 1

\* C17: right after flag_ticket(u, t) is_ticket_flagged(u, t) is true, right
\* after unflag_ticket(u, t) it is false, and a call of is_ticket_flagged
\* returns whether the table holds a row for the pair.
C17_FlagUnflagRoundTrip ==
    /\ op = "flag_ticket" =>
            is_ticket_flagged(flags, args.user_id, args.ticket_id)
    /\ op = "unflag_ticket" =>
            ~is_ticket_flagged(flags, args.user_id, args.ticket_id)
    /\ op = "is_ticket_flagged" =>
            (result <=> FlagsOf(flags, args.user_id, args.ticket_id) /= {})

\* An unflag_ticket call that removed a flag set before, while the other user
\* still flags the same ticket.
C17_Witness ==
    /\ op = "unflag_ticket"
    /\ result = TRUE
    /\ Len(flags) = 1
    /\ flags[1].ticket_id = args.ticket_id
    /\ flags[1].user_id /= args.user_id
    /\ flags[1].id = 2

\* C14: when flag_ticket calls for the same pair run at the same time, each
\* an existence check followed by an insert and commit in its own session,
\* then once no insert is under way the table holds at most one row for every
\* (user, ticket) pair.
C14_ConcurrentFlagsStayUnique ==
    (\A s \in SessionIds : sessions[s].pc /= "insert") =>
        \A user_id \in FlagUsers, ticket_id \in TicketIds :
            Cardinality(FlagsOf(flags, user_id, ticket_id)) <= 1

\* The (ticket, flag) pairs of a user whose ticket the filter of the held call
\* matches (4.1).
MatchingFlagged(user_id) ==
    {p \in MatchingTickets \X SeqToSet(flags) :
        p[2].user_id = user_id /\ p[2].ticket_id = p[1].id}

\* C18: get_flagged_tickets returns exactly the (ticket, flag) pairs where the
\* flag is the user's, its ticket_id is the ticket's id and the ticket is one
\* that get_filtered_tickets returns for the filters; each pair once, so one
\* pair per such flag row, and never a flag of another user.
C18_FlaggedTicketsOfUser ==
    op = "get_flagged_tickets" =>
        /\ SeqToSet(result) = MatchingFlagged(args.user_id)
        /\ Len(result) = Cardinality(MatchingFlagged(args.user_id))
        /\ Len(result) = Cardinality({fl \in SeqToSet(flags) :
                            /\ fl.user_id = args.user_id
                            /\ \E t \in MatchingTickets : t.id = fl.ticket_id})
        /\ \A i \in 1..Len(result) :
                /\ result[i][2].user_id = args.user_id
                /\ result[i][2].ticket_id = result[i][1].id
                /\ result[i][1] \in SeqToSet(get_filtered_tickets(tickets, filters))

\* A call that returned a pair of the user, dropped a flagged ticket of the
\* user that the filter does not match, and saw a flag of the other user.
C18_Witness ==
    /\ op = "get_flagged_tickets"
    /\ Len(result) >= 1
    /\ \E fl \in SeqToSet(flags) :
            /\ fl.user_id = args.user_id
            /\ \E t \in StoredTickets \ MatchingTickets : t.id = fl.ticket_id
    /\ \E fl \in SeqToSet(flags) : fl.user_id /= args.user_id

\* The ids of the tickets get_flagged_tickets lists for a user on a flag
\* table, under the unrestricted filter.
ListedIds(table, user_id) ==
    LET listing == get_flagged_tickets(tickets, table, user_id, NoFilter)
    IN  {listing[i][1].id : i \in 1..Len(listing)}

\* Whether the held call removes the flag of the pair, if there is one.
Unflags(name, a, user_id, ticket_id) ==
    \/ name = "unflag_ticket" /\ a.user_id = user_id /\ a.ticket_id = ticket_id
    \/ name = "bulk_unflag_tickets" /\ a.user_id = user_id
            /\ ticket_id \in SeqToSet(a.ticket_ids)

\* C19: after every step the ids get_flagged_tickets lists for a user under
\* the unrestricted filter are exactly the ids is_ticket_flagged holds for;
\* the pair of a flag_ticket call that returned is among them; a pair that is
\* flagged stays flagged through every step that is no unflag of it; and
\* the calls of get_flagged_tickets and is_ticket_flagged return that view.
C19_ReadYourWrites ==
    [][/\ \A u \in FlagUsers :
            ListedIds(flags', u) = {id \in AnyTicketIds : is_ticket_flagged(flags', u, id)}
       /\ op' = "flag_ticket" =>
            /\ args'.ticket_id \in ListedIds(flags', args'.user_id)
            /\ is_ticket_flagged(flags', args'.user_id, args'.ticket_id)
       /\ \A u \in FlagUsers, id \in AnyTicketIds :
            (is_ticket_flagged(flags, u, id) /\ ~Unflags(op', args', u, id)) =>
                /\ is_ticket_flagged(flags', u, id)
                /\ id \in ListedIds(flags', u)
       /\ (op' = "get_flagged_tickets" /\ filters' = NoFilter) =>
            {result'[i][1].id : i \in 1..Len(result')} =
                {id \in AnyTicketIds : FlagsOf(flags, args'.user_id, id) /= {}}
       /\ op' = "is_ticket_flagged" =>
            (result' <=> FlagsOf(flags, args'.user_id, args'.ticket_id) /= {})]_vars

\* An unrestricted get_flagged_tickets call that listed two tickets of the
\* user, the flag set last among them, beside a flag of the other user.
C19_Witness ==
    /\ op = "get_flagged_tickets"
    /\ filters = NoFilter
    /\ Len(result) = 2
    /\ Len(flags) = 3
    /\ flags[3].user_id = args.user_id
    /\ \E i \in 1..Len(result) : result[i][2] = flags[3]

\* C20: export_flagged_tickets_csv for a user without a flagged ticket that
\* matches the filter returns exactly one line, the header row.
C20_EmptyExportIsHeaderOnly ==
    (op = "export_flagged_tickets_csv" /\ MatchingFlagged(args.user_id) = {}) =>
        /\ Len(result) = 1
        /\ result[1] = ExportColumns

\* The value get_flagged_tickets returns for the arguments of the held call.
FlaggedOfCall == get_flagged_tickets(tickets, flags, args.user_id, filters)

\* C21: for a user with n >= 1 flagged tickets matching the filter the export
\* is a header line with the columns key, title, team, severity, status,
\* created, updated, assignee, time_to_resolve_hours, flagged_at, flag_notes
\* in that order, followed by exactly n data lines, the i-th of them for the
\* i-th (ticket, flag) pair of get_flagged_tickets.
C21_ExportHeaderAndRows ==
    (op = "export_flagged_tickets_csv" /\ Len(FlaggedOfCall) >= 1) =>
        /\ Len(result) = Len(FlaggedOfCall) + 1
        /\ Len(FlaggedOfCall) = Cardinality(MatchingFlagged(args.user_id))
        /\ result[1] = <<"key", "title", "team", "severity", "status", "created",
                         "updated", "assignee", "time_to_resolve_hours", "flagged_at",
                         "flag_notes">>
        /\ \A i \in 1..Len(FlaggedOfCall) :
                LET ticket == FlaggedOfCall[i][1]
                    flag == FlaggedOfCall[i][2]
                    line == result[i + 1]
                IN  /\ Len(line) = Len(result[1])
                    /\ line[1] = ticket.key
                    /\ line[2] = ticket.summary
                    /\ line[5] = ticket.status
                    /\ line[6] = IsoFormatDatetime(ticket.created)
                    /\ line[10] = IsoFormatDatetime(flag.flagged_at)
                    /\ IsNone(ticket.eng_team) <=> line[3] = ""
                    /\ IsNone(ticket.time_to_resolve_hours) <=> line[9] = <<>>

\* An export of two data lines for two different tickets, the second of them
\* with a resolve duration, under a filter that drops a flagged ticket.
C21_Witness ==
    /\ op = "export_flagged_tickets_csv"
    /\ Len(result) = 3
    /\ result[2][1] /= result[3][1]
    /\ result[3][9] = <<49, 49, 46, 53, 48>>
    /\ Cardinality({i \in 1..Len(flags) : flags[i].user_id = args.user_id}) = 3

(***************************************************************************)
(* Claims about DashboardService.                                          *)
(***************************************************************************)
DashMutations == {"update_ticket_status", "update_ticket", "delete_ticket", "assign_ticket"}

\* The call just made named a ticket id that is not stored, or (assign_ticket)
\* a non-null assignee id that is no stored user.
NothingToActOn(o, a, table, stored_users) ==
    /\ o \in DashMutations
    /\ \/ IsNone(GetTicket(table, a.ticket_id))
       \/ /\ o = "assign_ticket"
          /\ ~IsNone(a.assignee_id)
          /\ Val(a.assignee_id) \notin stored_users

\* C22: update_ticket_status, update_ticket, delete_ticket and assign_ticket
\* called with a ticket id that is not stored, and assign_ticket called with a
\* non-null assignee id that is not a stored user, return False (they do not
\* raise) and leave every stored ticket, its updated_at and assignee_id
\* included, as it was.
C22_NotFoundLeavesStoreAlone ==
    [][NothingToActOn(op', args', dash_tickets, users)
        => result' = FALSE /\ dash_tickets' = dash_tickets]_vars

\* assign_ticket named a stored ticket and an assignee that is no user.
C22_Witness ==
    /\ op = "assign_ticket"
    /\ ~IsNone(GetTicket(dash_tickets, args.ticket_id))
    /\ ~IsNone(args.assignee_id)
    /\ Val(args.assignee_id) \notin users
    /\ result = FALSE

\* A ticket in RESOLVED or CLOSED has a resolved_at, one in OPEN or
\* IN_PROGRESS has none.
ResolvedAtMatchesStatus(table) ==
    \A i \in 1..Len(table) :
        /\ table[i].status \in {"RESOLVED", "CLOSED"} => ~IsNone(table[i].resolved_at)
        /\ table[i].status \in {"OPEN", "IN_PROGRESS"} => IsNone(table[i].resolved_at)

\* The stored ticket with this id.
TicketById(table, id) == table[Val(GetTicket(table, id))]

\* C23: update_ticket_status on a stored ticket sets resolved_at (to the
\* clock value it read) when the new status is RESOLVED or CLOSED and
\* resolved_at was unset, keeps a resolved_at that was set on such an update,
\* and clears it when the new status is OPEN or IN_PROGRESS; so from a table
\* where resolved_at matches the status, it still does after every call.
C23_ResolvedAtFollowsStatus ==
    /\ ResolvedAtMatchesStatus(dash_tickets)
    /\ [][/\ (op' = "update_ticket_status" /\ ~IsNone(GetTicket(dash_tickets, args'.ticket_id)))
             => LET before == TicketById(dash_tickets, args'.ticket_id)
                    after == TicketById(dash_tickets', args'.ticket_id)
                IN  /\ result' = TRUE
                    /\ after.status = args'.status
                    /\ (args'.status \in {"RESOLVED", "CLOSED"} /\ IsNone(before.resolved_at))
                        => after.resolved_at = Some(args'.utcnow)
                    /\ (args'.status \in {"RESOLVED", "CLOSED"} /\ ~IsNone(before.resolved_at))
                        => after.resolved_at = before.resolved_at
                    /\ args'.status \in {"OPEN", "IN_PROGRESS"} => IsNone(after.resolved_at)
          /\ ResolvedAtMatchesStatus(dash_tickets')]_vars

\* A ticket that was resolved earlier was set to CLOSED and kept the
\* resolved_at it had, which is not the clock value of this call.
C23_Witness ==
    /\ op = "update_ticket_status"
    /\ result = TRUE
    /\ args.status = "CLOSED"
    /\ ~IsNone(GetTicket(dash_tickets, args.ticket_id))
    /\ TicketById(dash_tickets, args.ticket_id).resolved_at # Some(args.utcnow)

(***************************************************************************)
(* Claims about FilterState.                                               *)
(***************************************************************************)
\* The parameter is there, is not empty, and is no ISO date.
BadDateParam(o) == TruthyParam(o) /\ IsNone(ParseIsoDate(Val(o)))

\* What a list parameter that is set asks the field to become.
ListAsked(o) == Split(Val(o))

\* C24: from_url_params given a date_start or date_end string that is not a
\* valid ISO date raises nothing (it returns None), leaves that date field at
\* the value it had before the call, and still applies every other parameter
\* of the same call.
C24_BadDateIsSkipped ==
    [][(op' = "from_url_params"
        /\ (BadDateParam(args'.params.date_start) \/ BadDateParam(args'.params.date_end)))
       => LET params == args'.params
          IN  /\ result' = None
              /\ BadDateParam(params.date_start)
                    => filter_state'.date_start = filter_state.date_start
              /\ BadDateParam(params.date_end)
                    => filter_state'.date_end = filter_state.date_end
              /\ (TruthyParam(params.date_start) /\ ~BadDateParam(params.date_start))
                    => filter_state'.date_start = ParseIsoDate(Val(params.date_start))
              /\ (TruthyParam(params.date_end) /\ ~BadDateParam(params.date_end))
                    => filter_state'.date_end = ParseIsoDate(Val(params.date_end))
              /\ TruthyParam(params.teams) => filter_state'.teams = ListAsked(params.teams)
              /\ TruthyParam(params.severities)
                    => filter_state'.severities = ListAsked(params.severities)
              /\ TruthyParam(params.statuses)
                    => filter_state'.statuses = ListAsked(params.statuses)]_vars

\* A call whose date_start was no date and whose date_end and teams were
\* applied to a state that held other values.
C24_Witness ==
    /\ op = "from_url_params"
    /\ BadDateParam(args.params.date_start)
    /\ filter_state.date_start = args.before.date_start
    /\ TruthyParam(args.params.date_end)
    /\ filter_state.date_end = Some(DayD)
    /\ args.before.date_end # Some(DayD)
    /\ TruthyParam(args.params.teams)
    /\ filter_state.teams = <<StrA, StrB>>
    /\ args.before.teams # <<StrA, StrB>>

ParamKeys == {"date_start", "date_end", "teams", "severities", "statuses"}

\* C25: an absent key means no restriction: after from_url_params(params)
\* every field whose key is missing from params is unrestricted (None) in
\* to_filter_params(), and from_url_params(to_url_params()) applied to a new
\* FilterState gives back the filter state that was serialized.
C25_AbsentKeyMeansNoRestriction ==
    [][/\ op' = "from_url_params"
            => \A k \in ParamKeys :
                IsNone(args'.params[k]) => IsNone(to_filter_params(filter_state')[k])
       /\ op' = "to_url_params"
            => from_url_params(NewFilterState, result') = filter_state']_vars

\* C26: the end date is inclusive for the whole day: with date_end = D, a
\* ticket created at any time of day on D (that the other fields let pass) is
\* returned by get_filtered_tickets(to_filter_params()) and a ticket created
\* on the following day is not; with date_start = D a ticket created at 00:00
\* on D is returned.
PassesOtherFields(t, state) ==
    /\ Len(state.teams) = 0 \/ (~IsNone(t.eng_team) /\ Val(t.eng_team) \in SeqToSet(state.teams))
    /\ Len(state.severities) = 0
        \/ (~IsNone(t.severity) /\ Val(t.severity) \in SeqToSet(state.severities))
    /\ Len(state.statuses) = 0 \/ t.status \in SeqToSet(state.statuses)

Returned(t) == \E i \in 1..Len(result) : result[i] = t

C26_EndDateCoversWholeDay ==
    op = "get_filtered_tickets" =>
        \A t \in StoredTickets :
            /\ (/\ ~IsNone(filter_state.date_end)
                /\ DateOf(t.created) = Val(filter_state.date_end)
                /\ IsNone(filter_state.date_start)
                    \/ SeqLeq(Val(filter_state.date_start), DateOf(t.created))
                /\ PassesOtherFields(t, filter_state))
               => Returned(t)
            /\ (/\ ~IsNone(filter_state.date_end)
                /\ DateOf(t.created) = NextDay(Val(filter_state.date_end)))
               => ~Returned(t)
            /\ (/\ ~IsNone(filter_state.date_start)
                /\ t.created = Combine(Val(filter_state.date_start), MinTime)
                /\ IsNone(filter_state.date_end)
                    \/ SeqLeq(DateOf(t.created), Val(filter_state.date_end))
                /\ PassesOtherFields(t, filter_state))
               => Returned(t)

\* With date_start = date_end = D the tickets of 00:00 and of 23:59:59.999999
\* on D were returned and stored tickets of the next day were not.
C26_Witness ==
    /\ op = "get_filtered_tickets"
    /\ filter_state.date_start = Some(DayD)
    /\ filter_state.date_end = Some(DayD)
    /\ \E t \in StoredTickets : t.created = Combine(DayD, MinTime) /\ Returned(t)
    /\ \E t \in StoredTickets : t.created = Combine(DayD, MaxTime) /\ Returned(t)
    /\ \E t \in StoredTickets : DateOf(t.created) = NextDay(DayD) /\ ~Returned(t)

(***************************************************************************)
(* Claims about DashboardState.refresh_dashboard.                          *)
(***************************************************************************)
RECURSIVE SumCreated(_)
\* The sum of the created counts of the points of a time series.
SumCreated(points) ==
    IF points = <<>> THEN 0 ELSE Head(points).created + SumCreated(Tail(points))

\* A pass is over in which the KPI and the charts were loaded without error.
PassShowsKpiAndCharts ==
    /\ refresh.pc = "done"
    /\ {"kpi", "charts"} \subseteq refresh.containers
    /\ refresh.errors \cap {"kpi", "charts"} = {}

\* C27: within one refresh_dashboard pass the KPI, the time series and the
\* cross-tab come from the same filtered subset: tickets_created equals the
\* sum of the cross-tab cells and the sum of the created counts of the time
\* series, also when another writer inserts a ticket between the queries of
\* the pass.
C27_OnePassOneSubset ==
    PassShowsKpiAndCharts =>
        /\ Val(refresh.kpi).tickets_created = SumEntries(Val(refresh.bar))
        /\ Val(refresh.kpi).tickets_created = SumCreated(Val(refresh.series))

\* The refresh_* methods refresh_dashboard calls for a set of containers, in
\* its order.
StepOfContainer(c) ==
    CASE c = "kpi" -> "refresh_kpis"
      [] c = "charts" -> "refresh_charts"
      [] c = "tickets" -> "refresh_tickets_tab"
      [] c = "flagged" -> "refresh_flagged_tab"

ExpectedSteps(containers) ==
    LET set == SelectSeq(ContainerOrder, LAMBDA c : c \in containers)
    IN  [i \in 1..Len(set) |-> StepOfContainer(set[i])]

IsPrefix(a, b) == Len(a) <= Len(b) /\ SubSeq(b, 1, Len(a)) = a

\* C28: the steps of refresh_dashboard run in the order KPIs, charts, tickets
\* tab, flagged tab, each only if its container is set; an exception raised
\* by a service call is caught inside its step and shown as an inline error,
\* so every later step of the pass still runs and refresh_dashboard does not
\* raise.
C28_FailedStepDoesNotStopThePass ==
    /\ ~refresh.raised
    /\ IsPrefix(refresh.steps, ExpectedSteps(refresh.containers))
    /\ refresh.pc = "done" => refresh.steps = ExpectedSteps(refresh.containers)
    /\ refresh.errors \subseteq refresh.containers
    /\ "kpi" \in refresh.errors => IsNone(refresh.kpi)
    /\ "tickets" \in refresh.errors => IsNone(refresh.rows)
    /\ "flagged" \in refresh.errors => IsNone(refresh.flagged)

\* A pass over three containers in which the KPI query and a chart query
\* raised and the tickets tab was loaded all the same.
C28_Witness ==
    /\ refresh.pc = "done"
    /\ refresh.containers = {"kpi", "charts", "tickets"}
    /\ refresh.errors = {"kpi", "charts"}
    /\ refresh.steps = <<"refresh_kpis", "refresh_charts", "refresh_tickets_tab">>
    /\ refresh.rows = Some(2)

(***************************************************************************)
(* Claims about SeedService.                                               *)
(***************************************************************************)
RECURSIVE StoredCount(_)
\* The number of rows the batches stand for.
StoredCount(batches) ==
    IF batches = <<>> THEN 0 ELSE Head(batches).count + StoredCount(Tail(batches))

\* The highest key number stored, 0 on an empty table.
HighestNumber(batches) ==
    IF batches = <<>> THEN 0
    ELSE LET lasts == {LastNum(batches[i]) : i \in 1..Len(batches)}
         IN  CHOOSE n \in lasts : \A m \in lasts : m <= n

\* No key number is in two batches.
KeysDistinct(batches) ==
    \A i, j \in 1..Len(batches) :
        i < j => \/ LastNum(batches[i]) < FirstNum(batches[j])
                 \/ LastNum(batches[j]) < FirstNum(batches[i])

\* C29: starting from an empty store, every create_sample_tickets(count) call
\* numbers its keys from above the highest key number already stored and
\* stores count more tickets, so the keys stay distinct and the number of
\* stored tickets is the sum of the requested counts.
C29_SeedKeysContinue ==
    [][op' = "create_sample_tickets"
        => /\ args'.start_num > HighestNumber(seed_batches)
           /\ StoredCount(seed_batches') = StoredCount(seed_batches) + args'.count
           /\ KeysDistinct(seed_batches')]_vars

(***************************************************************************)
(* Claims about get_kpi_data and get_time_series_data together.            *)
(***************************************************************************)
RECURSIVE SumResolved(_)
\* The sum of the resolved counts of the points of a time series.
SumResolved(points) ==
    IF points = <<>> THEN 0 ELSE Head(points).resolved + SumResolved(Tail(points))

\* C30: in the result of get_kpi_data, open_tickets <= tickets_created, and
\* tickets_created - open_tickets is the sum of the resolved counts of
\* get_time_series_data for the same filter on the same store state: both
\* count the filtered tickets whose resolved_date is set.
C30_ResolvedCountsAgree ==
    op = "get_kpi_data" =>
        /\ result.open_tickets <= result.tickets_created
        /\ result.tickets_created - result.open_tickets
            = SumResolved(get_time_series_data(tickets, filters))
        /\ result.tickets_created - result.open_tickets
            = Cardinality({i \in 1..Len(tickets) :
                    Matches(tickets[i], filters) /\ ~IsNone(tickets[i].resolved_date)})

\* A filtered call over an open ticket and one resolved without a mitigation,
\* with a ticket the filter leaves out.
C30_Witness ==
    /\ op = "get_kpi_data"
    /\ ~IsNone(filters.date_end)
    /\ result.tickets_created < Len(tickets)
    /\ result.open_tickets >= 1
    /\ result.tickets_created - result.open_tickets >= 1
    /\ \E i \in 1..Len(tickets) :
        /\ Matches(tickets[i], filters)
        /\ ~IsNone(tickets[i].resolved_date)
        /\ IsNone(tickets[i].mitigated_date)

====
